---- MODULE Spec2Model ----
(***************************************************************************)
(* AgentLint: the concurrent analysis pipeline (ParallelAnalyzer), the     *)
(* cross-file call-graph builder and orphan detector (CrossFileAnalyzer)   *)
(* and the structural similarity detector (SimilarityAnalyzer).            *)
(*                                                                         *)
(* Each component has its own specification over the shared variable list: *)
(*   SpecPool / FairSpecPool   ParallelAnalyzer.AnalyzeFiles               *)
(*   SpecCross                 CrossFileAnalyzer                           *)
(*   SpecSim                   SimilarityAnalyzer                          *)
(*   SpecCache                 ASTCache, one caller at a time              *)
(*   SpecCacheConc             ASTCache, concurrent callers                *)
(***************************************************************************)
EXTENDS Integers, Sequences, FiniteSets, Bags, TLC

(***************************************************************************)
(* Bounds of the model.                                                    *)
(***************************************************************************)
MaxFiles == 3
MaxWorkers == 3
MaxDecls == 3
MaxRuns == 2
MaxNodes == 2
MaxClock == 3
MaxArtifacts == 2
MaxConcDecls == 2

VARIABLES
    \* ---- ParallelAnalyzer.AnalyzeFiles ----
    filePaths,      \* the filePaths argument
    workerNum,      \* a.workerNum
    analyzeErr,     \* the paths on which the per-file Analyze returns an error
    jobChan,        \* buffered job channel: [buf, closed]
    resultChan,     \* buffered result channel: [buf, closed]
    wg,             \* sync.WaitGroup counter
    callerPc,       \* position of the goroutine that called AnalyzeFiles
    spawned,        \* loop variable i of the worker-spawning loop
    submitPc,       \* position of the submitter goroutine
    submitIdx,      \* number of jobs the submitter has enqueued
    closerPc,       \* position of the goroutine that waits on wg
    workerPc,       \* position of each worker goroutine
    workerJob,      \* the job a worker has dequeued
    workerOut,      \* the analyzeResult a worker is about to send
    allResults,     \* the slice the caller accumulates
    panicked,       \* a goroutine panicked (send on / close of a closed channel)
    workersArg,     \* the workers argument of NewParallelAnalyzer
    numCPU,         \* runtime.NumCPU()
    ctxDone,        \* the ctx argument of AnalyzeFiles has been cancelled
    analyzeCalls,   \* history: the paths Analyze has been called with, as a bag
    resultSends,    \* history: the number of sends on the result channel
    \* ---- CrossFileAnalyzer ----
    project,        \* the directory on disk: the declarations of each file
    functions,      \* a.functions: file -> name -> FunctionInfo
    methods,        \* a.methods: receiver type -> method name -> FunctionInfo
    calls,          \* a.calls: (file, caller) -> callees, in recording order
    methodCalls,    \* a.methodCalls: (file, caller) -> method names
    funcReferences, \* a.funcReferences: names used as function values
    walkIdx,        \* files the running AnalyzeDirectory walk has visited; past
                    \* Len(Paths) while no CrossFileAnalyzer has been constructed
    runs,           \* AnalyzeDirectory calls started so far
    found,          \* what the latest FindUnusedFunctions call returned
    broken,         \* the files of the directory that cannot be read or parsed
    walkErr,        \* the error the latest AnalyzeDirectory returned: "" is nil
    analyzed,       \* history: the files the latest walk has recorded, in order
    mu,             \* a.mu: [writer, readers]
    afPc,           \* where the walking goroutine is inside analyzeFile
    rdPc,           \* where the goroutine that queries the analyzer is
    rdOp,           \* the method it runs: "Find" or "Graph"
    graph,          \* the map the latest GetCallGraph returned
    \* ---- SimilarityAnalyzer ----
    simDecls,       \* the directory on disk: its function declarations, in
                    \* walk order
    simProject,     \* the directory on disk: the body of each declared function
    funcBodies,     \* a.funcBodies: key -> normalized body
    threshold,      \* the threshold argument of AnalyzeDirectory, in tenths
    keys,           \* findSimilarFunctions' keys: the map keys in iteration order
    similarities,   \* what findSimilarFunctions returned
    simResults,     \* the results AnalyzeDirectory returned
    simPc,          \* "idle" before AnalyzeDirectory, "done" after it, "none"
                    \* while no SimilarityAnalyzer has been constructed
    simBroken,      \* the files of the directory that cannot be read or parsed
    simErr,         \* the error AnalyzeDirectory returned: "" is nil
    \* ---- ASTCache ----
    now,            \* the wall clock, in ticks
    disk,           \* the files on disk: path -> modification time
    cache,          \* c.cache: path -> cachedFile
    maxAge,         \* c.maxAge, in ticks
    pending,        \* the successful Set that no other call has followed yet
    ret,            \* the latest call and what it returned
    callPc,         \* where each caller of the cache is in its method
    callOp,         \* the method each caller runs
    callPath,       \* its filePath argument
    readers,        \* c.mu: the callers that hold the read lock
    writer,         \* c.mu: the caller that holds the write lock
    crashed         \* the runtime aborted the process on a concurrent map access

poolVars == <<filePaths, workerNum, analyzeErr, jobChan, resultChan, wg, callerPc,
              spawned, submitPc, submitIdx, closerPc, workerPc, workerJob, workerOut,
              allResults, panicked, workersArg, numCPU, ctxDone, analyzeCalls,
              resultSends>>

crossLockVars == <<mu, afPc, rdPc, rdOp, graph>>

crossVars == <<project, functions, methods, calls, methodCalls, funcReferences,
               walkIdx, runs, found, broken, walkErr, analyzed, crossLockVars>>

simVars == <<simDecls, simProject, funcBodies, threshold, keys, similarities, simResults, simPc,
             simBroken, simErr>>

lockVars == <<callPc, callOp, callPath, readers, writer, crashed>>

cacheVars == <<now, disk, cache, maxAge, pending, ret, lockVars>>

vars == <<poolVars, crossVars, simVars, cacheVars>>

(***************************************************************************)
(* Generic helpers.                                                        *)
(***************************************************************************)
RECURSIVE SeqToBag(_)
SeqToBag(s) == IF s = <<>> THEN EmptyBag ELSE SetToBag({Head(s)}) (+) SeqToBag(Tail(s))

(***************************************************************************)
(* ParallelAnalyzer                                                        *)
(***************************************************************************)
PoolPaths == {"a.go", "b.go"}

\* The explicit worker counts a pool is constructed with, and the ids of the
\* worker goroutines a pool can start.
WorkerArgs == 1..MaxWorkers

Workers == 1..(MaxWorkers + 1)

\* The CPU counts of the machines the default worker count is taken on.
CPUs == 1..(MaxWorkers + 2)

\* defaultWorkerCount with runtime.NumCPU() = maxProcs
defaultWorkerCountOneLess(maxProcs) == maxProcs - 1

defaultWorkerCount(maxProcs) == IF maxProcs > 4 THEN maxProcs - 1 ELSE maxProcs

\* NewParallelAnalyzer(config, workers) on a machine with cpus CPUs
NewParallelAnalyzer(workers, cpus) ==
    [workerNum |-> IF workers <= 0 THEN defaultWorkerCount(cpus) ELSE workers]

\* WorkerCount
WorkerCount(a) == a.workerNum

\* The per-file analyzer: deterministic in the path.  A failing path yields
\* (nil, err); "a.go" yields one result and "b.go" two.
ResultCount(path) == IF path = "a.go" THEN 1 ELSE 2

Analyze(path, failing) ==
    IF path \in failing
    THEN [results |-> <<>>, err |-> TRUE]
    ELSE [results |-> [i \in 1..ResultCount(path) |-> [FilePath |-> path, Line |-> i]],
          err |-> FALSE]

NoJob == [filePath |-> ""]
NoOut == [results |-> <<>>, err |-> FALSE]
NoChan == [buf |-> <<>>, cap |-> 0, closed |-> FALSE]

MakeChanOneShort(capacity) == [buf |-> <<>>, cap |-> capacity - 1, closed |-> FALSE]

MakeChan(capacity) == [buf |-> <<>>, cap |-> capacity, closed |-> FALSE]

\* AnalyzeFiles has been called and has not run yet.
PoolStart ==
    /\ jobChan = NoChan
    /\ resultChan = NoChan
    /\ wg = 0
    /\ callerPc = "entry"
    /\ spawned = 0
    /\ submitPc = "none"
    /\ submitIdx = 0
    /\ closerPc = "none"
    /\ workerPc = [w \in Workers |-> "none"]
    /\ workerJob = [w \in Workers |-> NoJob]
    /\ workerOut = [w \in Workers |-> NoOut]
    /\ allResults = <<>>
    /\ panicked = FALSE
    /\ analyzeCalls = EmptyBag
    /\ resultSends = 0

\* A pool constructed with an explicit worker count, called with a context
\* that is never cancelled.
InitPool ==
    /\ filePaths \in UNION {[1..n -> PoolPaths] : n \in 0..MaxFiles}
    /\ workersArg \in WorkerArgs
    /\ numCPU = 1
    /\ workerNum = NewParallelAnalyzer(workersArg, numCPU).workerNum
    /\ analyzeErr \in SUBSET PoolPaths
    /\ ctxDone = FALSE
    /\ PoolStart

\* The workers arguments a caller may pass, those that ask for the default
\* included.
AnyWorkerArgs == (-1)..MaxWorkers

\* A pool constructed with any workers argument on a machine of any size,
\* called with copies of one file the analyzer accepts.
InitPoolCtor ==
    /\ filePaths \in {[i \in 1..n |-> "a.go"] : n \in 0..MaxFiles}
    /\ workersArg \in AnyWorkerArgs
    /\ numCPU \in CPUs
    /\ workerNum = NewParallelAnalyzer(workersArg, numCPU).workerNum
    /\ analyzeErr = {}
    /\ ctxDone = FALSE
    /\ PoolStart

\* AnalyzeFiles, lines 46-52: the empty-input return, else the two channels.
CallerEntryNoEmptyReturn ==
    /\ callerPc = "entry"
    /\ callerPc' = "spawn"
    /\ jobChan' = MakeChan(Len(filePaths))
    /\ resultChan' = MakeChan(Len(filePaths))
    /\ UNCHANGED <<filePaths, workerNum, analyzeErr, wg, spawned, submitPc, submitIdx,
                   closerPc, workerPc, workerJob, workerOut, allResults, panicked>>
    /\ UNCHANGED <<workersArg, numCPU, ctxDone, analyzeCalls, resultSends>>
    /\ UNCHANGED <<crossVars, simVars, cacheVars>>

CallerEntry ==
    /\ callerPc = "entry"
    /\ IF Len(filePaths) = 0
       THEN /\ callerPc' = "returned"
            /\ UNCHANGED <<jobChan, resultChan>>
       ELSE /\ callerPc' = "spawn"
            /\ jobChan' = MakeChan(Len(filePaths))
            /\ resultChan' = MakeChan(Len(filePaths))
    /\ UNCHANGED <<filePaths, workerNum, analyzeErr, wg, spawned, submitPc, submitIdx,
                   closerPc, workerPc, workerJob, workerOut, allResults, panicked>>
    /\ UNCHANGED <<workersArg, numCPU, ctxDone, analyzeCalls, resultSends>>
    /\ UNCHANGED <<crossVars, simVars, cacheVars>>

\* One iteration of the loop of lines 54-60: wg.Add(1); go worker.
\* When the loop ends the caller starts the submitter (line 62).
CallerSpawnWorker ==
    /\ callerPc = "spawn"
    /\ ~panicked
    /\ IF spawned < workerNum
       THEN /\ wg' = wg + 1
            /\ workerPc' = [workerPc EXCEPT ![spawned + 1] = "recv"]
            /\ spawned' = spawned + 1
            /\ UNCHANGED <<callerPc, submitPc>>
       ELSE /\ submitPc' = "send"
            /\ callerPc' = "goCloser"
            /\ UNCHANGED <<wg, workerPc, spawned>>
    /\ UNCHANGED <<filePaths, workerNum, analyzeErr, jobChan, resultChan, submitIdx,
                   closerPc, workerJob, workerOut, allResults, panicked>>
    /\ UNCHANGED <<workersArg, numCPU, ctxDone, analyzeCalls, resultSends>>
    /\ UNCHANGED <<crossVars, simVars, cacheVars>>

\* Line 74: go func() { wg.Wait(); close(resultChan) }.
CallerSpawnCloser ==
    /\ callerPc = "goCloser"
    /\ ~panicked
    /\ closerPc' = "wait"
    /\ callerPc' = "drain"
    /\ UNCHANGED <<filePaths, workerNum, analyzeErr, jobChan, resultChan, wg, spawned,
                   submitPc, submitIdx, workerPc, workerJob, workerOut, allResults,
                   panicked>>
    /\ UNCHANGED <<workersArg, numCPU, ctxDone, analyzeCalls, resultSends>>
    /\ UNCHANGED <<crossVars, simVars, cacheVars>>

\* The body of the drain loop, lines 82-85.
DrainAppendOverwrite(all, result) ==
    IF result.err THEN all ELSE result.results

DrainAppend(all, result) ==
    IF result.err THEN all ELSE all \o result.results

\* Lines 81-88: for result := range resultChan; the loop ends when the
\* channel is closed and empty.
CallerDrain ==
    /\ callerPc = "drain"
    /\ ~panicked
    /\ \/ /\ resultChan.buf # <<>>
          /\ allResults' = DrainAppend(allResults, Head(resultChan.buf))
          /\ resultChan' = [resultChan EXCEPT !.buf = Tail(@)]
          /\ UNCHANGED callerPc
       \/ /\ resultChan.buf = <<>>
          /\ resultChan.closed
          /\ callerPc' = "returned"
          /\ UNCHANGED <<allResults, resultChan>>
    /\ UNCHANGED <<filePaths, workerNum, analyzeErr, jobChan, wg, spawned, submitPc,
                   submitIdx, closerPc, workerPc, workerJob, workerOut, panicked>>
    /\ UNCHANGED <<workersArg, numCPU, ctxDone, analyzeCalls, resultSends>>
    /\ UNCHANGED <<crossVars, simVars, cacheVars>>

\* Submitter goroutine, lines 63-71: one send per path, then close(jobChan).
\* A send blocks while the buffer is full and panics on a closed channel.
Submit ==
    /\ submitPc = "send"
    /\ ~panicked
    /\ IF submitIdx < Len(filePaths)
       THEN /\ \/ jobChan.closed
               \/ Len(jobChan.buf) < jobChan.cap
            /\ IF jobChan.closed
               THEN /\ panicked' = TRUE
                    /\ UNCHANGED <<jobChan, submitIdx>>
               ELSE /\ jobChan' = [jobChan EXCEPT
                                     !.buf = Append(@, [filePath |-> filePaths[submitIdx + 1]])]
                    /\ submitIdx' = submitIdx + 1
                    /\ UNCHANGED panicked
            /\ UNCHANGED submitPc
       ELSE /\ jobChan' = [jobChan EXCEPT !.closed = TRUE]
            /\ panicked' = (panicked \/ jobChan.closed)
            /\ submitPc' = "done"
            /\ UNCHANGED submitIdx
    /\ UNCHANGED <<filePaths, workerNum, analyzeErr, resultChan, wg, callerPc, spawned,
                   closerPc, workerPc, workerJob, workerOut, allResults>>
    /\ UNCHANGED <<workersArg, numCPU, ctxDone, analyzeCalls, resultSends>>
    /\ UNCHANGED <<crossVars, simVars, cacheVars>>

\* Worker, line 92: for job := range jobChan.  On a closed and empty
\* channel the loop ends, the worker returns and the deferred wg.Done() runs.
WorkerRecv(w) ==
    /\ workerPc[w] = "recv"
    /\ ~panicked
    /\ \/ /\ jobChan.buf # <<>>
          /\ workerJob' = [workerJob EXCEPT ![w] = Head(jobChan.buf)]
          /\ jobChan' = [jobChan EXCEPT !.buf = Tail(@)]
          /\ workerPc' = [workerPc EXCEPT ![w] = "analyze"]
          /\ UNCHANGED wg
       \/ /\ jobChan.buf = <<>>
          /\ jobChan.closed
          /\ workerPc' = [workerPc EXCEPT ![w] = "done"]
          /\ wg' = wg - 1
          /\ UNCHANGED <<workerJob, jobChan>>
    /\ UNCHANGED <<filePaths, workerNum, analyzeErr, resultChan, callerPc, spawned,
                   submitPc, submitIdx, closerPc, workerOut, allResults, panicked>>
    /\ UNCHANGED <<workersArg, numCPU, ctxDone, analyzeCalls, resultSends>>
    /\ UNCHANGED <<crossVars, simVars, cacheVars>>

\* Worker, line 93: results, err := a.analyzer.Analyze(ctx, job.filePath, config).
WorkerAnalyzeUnlessCancelled(w) ==
    /\ workerPc[w] = "analyze"
    /\ ~panicked
    /\ workerOut' = [workerOut EXCEPT ![w] =
            IF ctxDone THEN [results |-> <<>>, err |-> TRUE]
            ELSE Analyze(workerJob[w].filePath, analyzeErr)]
    /\ workerPc' = [workerPc EXCEPT ![w] = "send"]
    /\ UNCHANGED <<filePaths, workerNum, analyzeErr, jobChan, resultChan, wg, callerPc,
                   spawned, submitPc, submitIdx, closerPc, workerJob, allResults,
                   panicked>>
    /\ analyzeCalls' = IF ctxDone THEN analyzeCalls
                       ELSE analyzeCalls (+) SetToBag({workerJob[w].filePath})
    /\ UNCHANGED <<workersArg, numCPU, ctxDone, resultSends>>
    /\ UNCHANGED <<crossVars, simVars, cacheVars>>

WorkerAnalyze(w) ==
    /\ workerPc[w] = "analyze"
    /\ ~panicked
    /\ workerOut' = [workerOut EXCEPT ![w] = Analyze(workerJob[w].filePath, analyzeErr)]
    /\ workerPc' = [workerPc EXCEPT ![w] = "send"]
    /\ UNCHANGED <<filePaths, workerNum, analyzeErr, jobChan, resultChan, wg, callerPc,
                   spawned, submitPc, submitIdx, closerPc, workerJob, allResults,
                   panicked>>
    /\ analyzeCalls' = analyzeCalls (+) SetToBag({workerJob[w].filePath})
    /\ UNCHANGED <<workersArg, numCPU, ctxDone, resultSends>>
    /\ UNCHANGED <<crossVars, simVars, cacheVars>>

\* Worker, lines 94-97: resultChan <- analyzeResult{results, err}.
WorkerSend(w) ==
    /\ workerPc[w] = "send"
    /\ ~panicked
    /\ \/ resultChan.closed
       \/ Len(resultChan.buf) < resultChan.cap
    /\ IF resultChan.closed
       THEN /\ panicked' = TRUE
            /\ UNCHANGED <<resultChan, workerPc, workerJob, workerOut>>
       ELSE /\ resultChan' = [resultChan EXCEPT !.buf = Append(@, workerOut[w])]
            /\ workerPc' = [workerPc EXCEPT ![w] = "recv"]
            /\ workerJob' = [workerJob EXCEPT ![w] = NoJob]
            /\ workerOut' = [workerOut EXCEPT ![w] = NoOut]
            /\ UNCHANGED panicked
    /\ UNCHANGED <<filePaths, workerNum, analyzeErr, jobChan, wg, callerPc, spawned,
                   submitPc, submitIdx, closerPc, allResults>>
    /\ resultSends' = IF resultChan.closed THEN resultSends ELSE resultSends + 1
    /\ UNCHANGED <<workersArg, numCPU, ctxDone, analyzeCalls>>
    /\ UNCHANGED <<crossVars, simVars, cacheVars>>

\* Closer goroutine, lines 75-76: wg.Wait(); close(resultChan).
CloserCloseNever ==
    /\ closerPc = "wait"
    /\ ~panicked
    /\ wg = 0
    /\ closerPc' = "done"
    /\ UNCHANGED <<filePaths, workerNum, analyzeErr, jobChan, resultChan, wg, callerPc,
                   spawned, submitPc, submitIdx, workerPc, workerJob, workerOut,
                   allResults, panicked>>
    /\ UNCHANGED <<workersArg, numCPU, ctxDone, analyzeCalls, resultSends>>
    /\ UNCHANGED <<crossVars, simVars, cacheVars>>

\* A closer that closes the result channel without wg.Wait().
CloserCloseNoWait ==
    /\ closerPc = "wait"
    /\ ~panicked
    /\ resultChan' = [resultChan EXCEPT !.closed = TRUE]
    /\ panicked' = (panicked \/ resultChan.closed)
    /\ closerPc' = "done"
    /\ UNCHANGED <<filePaths, workerNum, analyzeErr, jobChan, wg, callerPc, spawned,
                   submitPc, submitIdx, workerPc, workerJob, workerOut, allResults>>
    /\ UNCHANGED <<workersArg, numCPU, ctxDone, analyzeCalls, resultSends>>
    /\ UNCHANGED <<crossVars, simVars, cacheVars>>

CloserClose ==
    /\ closerPc = "wait"
    /\ ~panicked
    /\ wg = 0
    /\ resultChan' = [resultChan EXCEPT !.closed = TRUE]
    /\ panicked' = (panicked \/ resultChan.closed)
    /\ closerPc' = "done"
    /\ UNCHANGED <<filePaths, workerNum, analyzeErr, jobChan, wg, callerPc, spawned,
                   submitPc, submitIdx, workerPc, workerJob, workerOut, allResults>>
    /\ UNCHANGED <<workersArg, numCPU, ctxDone, analyzeCalls, resultSends>>
    /\ UNCHANGED <<crossVars, simVars, cacheVars>>

\* The owner of ctx cancels it.  AnalyzeFiles hands ctx to the workers and the
\* workers hand it to Analyze; none of them reads it.
Cancel ==
    /\ ~ctxDone
    /\ ctxDone' = TRUE
    /\ UNCHANGED <<filePaths, workerNum, analyzeErr, jobChan, resultChan, wg, callerPc,
                   spawned, submitPc, submitIdx, closerPc, workerPc, workerJob, workerOut,
                   allResults, panicked>>
    /\ UNCHANGED <<workersArg, numCPU, analyzeCalls, resultSends>>
    /\ UNCHANGED <<crossVars, simVars, cacheVars>>

\* AnalyzeFiles under a context that is cancelled before the call or during
\* it, on files the analyzer accepts.
InitPoolCtx ==
    /\ filePaths \in UNION {[1..n -> PoolPaths] : n \in 0..MaxFiles}
    /\ workersArg \in WorkerArgs
    /\ numCPU = 1
    /\ workerNum = NewParallelAnalyzer(workersArg, numCPU).workerNum
    /\ analyzeErr = {}
    /\ ctxDone \in BOOLEAN
    /\ PoolStart

NextPoolCtx ==
    \/ CallerEntry
    \/ CallerSpawnWorker
    \/ CallerSpawnCloser
    \/ CallerDrain
    \/ Submit
    \/ \E w \in Workers : WorkerRecv(w)
    \/ \E w \in Workers : WorkerAnalyze(w)
    \/ \E w \in Workers : WorkerSend(w)
    \/ CloserClose
    \/ Cancel

NextPool ==
    \/ CallerEntry
    \/ CallerSpawnWorker
    \/ CallerSpawnCloser
    \/ CallerDrain
    \/ Submit
    \/ \E w \in Workers : WorkerRecv(w)
    \/ \E w \in Workers : WorkerAnalyze(w)
    \/ \E w \in Workers : WorkerSend(w)
    \/ CloserClose

(***************************************************************************)
(* CrossFileAnalyzer                                                       *)
(*                                                                         *)
(* Identifiers are sequences of characters, so that the prefix, suffix and *)
(* export tests of the code are computed on the name itself.               *)
(***************************************************************************)
\* strings.HasPrefix, strings.HasSuffix
HasPrefix(s, prefix) == Len(s) >= Len(prefix) /\ SubSeq(s, 1, Len(prefix)) = prefix

HasSuffix(s, suffix) ==
    Len(s) >= Len(suffix) /\ SubSeq(s, Len(s) - Len(suffix) + 1, Len(s)) = suffix

UpperCase == {"A", "B", "C", "D", "E", "F", "G", "H", "I", "J", "K", "L", "M",
              "N", "O", "P", "Q", "R", "S", "T", "U", "V", "W", "X", "Y", "Z"}

\* ast.Ident.IsExported: the name begins with an upper-case letter.
IsExported(name) == name # <<>> /\ Head(name) \in UpperCase

\* Maps (Go map[K]V) are functions; a missing key reads as the zero value.
EmptyMap == <<>>

Put(m, k, v) == [x \in (DOMAIN m) \cup {k} |-> IF x = k THEN v ELSE m[x]]

Remove(m, k) == [x \in (DOMAIN m) \ {k} |-> m[x]]

MapGet(m, k, zero) == IF k \in DOMAIN m THEN m[k] ELSE zero

\* The identifiers of the analyzed sources.
n_main == <<"m", "a", "i", "n">>
n_init == <<"i", "n", "i", "t">>
n_used == <<"u", "s", "e", "d">>
n_orphan == <<"o", "r", "p", "h", "a", "n">>
n_Run == <<"R", "u", "n">>
n_TestRun == <<"T", "e", "s", "t", "R", "u", "n">>
n_BenchmarkRun == <<"B", "e", "n", "c", "h", "m", "a", "r", "k", "R", "u", "n">>
n_ExampleRun == <<"E", "x", "a", "m", "p", "l", "e", "R", "u", "n">>
n_runTest == <<"r", "u", "n", "T", "e", "s", "t">>
n_h == <<"h">>
n_process == <<"p", "r", "o", "c", "e", "s", "s">>

\* a.ignoredPrefixes, set by NewCrossFileAnalyzer
ignoredPrefixes ==
    { <<"B", "e", "n", "c", "h", "m", "a", "r", "k">>,
      <<"E", "x", "a", "m", "p", "l", "e">>,
      <<"T", "e", "s", "t">> }

\* One construct of a function body, as collectCallsFromNode meets it:
\*   call      name()               a call whose target is a bare name
\*   selcall   x.name()             a call whose target is a selector
\*   ident     h := name; h()       a bare name outside call position
\*   arg       process(name)        a bare name as a call argument
Item(kind, name) == [kind |-> kind, name |-> name]

\* An *ast.FuncDecl: name, receiver type name ("" for a free function), body.
FuncDecl(name, recv, body) == [Name |-> name, Recv |-> recv, Body |-> body]

\* The declarations the analyzed files are made of.  A file holds a subset of
\* them in this order; a declaration's position is its source line.
Catalogue ==
    << FuncDecl(n_main, "", <<Item("call", n_used)>>),
       FuncDecl(n_main, "", <<Item("selcall", n_used)>>),
       FuncDecl(n_main, "", <<Item("ident", n_used)>>),
       FuncDecl(n_main, "", <<Item("arg", n_used)>>),
       FuncDecl(n_used, "", <<>>),
       FuncDecl(n_used, "", <<Item("call", n_orphan)>>),
       FuncDecl(n_orphan, "", <<>>),
       FuncDecl(n_orphan, "", <<Item("call", n_used)>>),
       FuncDecl(n_orphan, "", <<Item("call", n_orphan)>>),
       FuncDecl(n_used, "Handler", <<>>),
       FuncDecl(n_used, "Handler", <<Item("call", n_orphan)>>),
       FuncDecl(n_used, "Handler", <<Item("selcall", n_orphan)>>),
       FuncDecl(n_orphan, "Handler", <<>>),
       FuncDecl(n_init, "", <<>>),
       FuncDecl(n_Run, "", <<>>),
       FuncDecl(n_Run, "Handler", <<>>),
       FuncDecl(n_TestRun, "", <<>>),
       FuncDecl(n_BenchmarkRun, "", <<>>),
       FuncDecl(n_ExampleRun, "", <<>>),
       FuncDecl(n_runTest, "", <<>>) >>

\* The eligible .go files of the directory, in the lexical order of
\* filepath.Walk; the second is a file of another package.
Paths == <<"a.go", "pkg/b.go">>

PathSet == {Paths[i] : i \in 1..Len(Paths)}

\* All sets of at most n (file, declaration) placements.
RECURSIVE Placements(_)
Placements(n) ==
    IF n = 0 THEN {{}}
    ELSE LET smaller == Placements(n - 1)
         IN  smaller \cup {S \cup {<<p, d>>} : S \in smaller, p \in PathSet,
                                                 d \in 1..Len(Catalogue)}

DeclsAt(placed, path) == {d \in 1..Len(Catalogue) : <<path, d>> \in placed}

\* A file declares each function and each method once.
WellFormed(placed) ==
    \A p \in PathSet : \A d, e \in DeclsAt(placed, p) :
        (Catalogue[d].Name = Catalogue[e].Name /\ Catalogue[d].Recv = Catalogue[e].Recv)
            => d = e

Projects == {[p \in PathSet |-> DeclsAt(placed, p)] :
                placed \in {S \in Placements(MaxDecls) : WellFormed(S)}}

\* The smaller directories the step-by-step specifications walk.
SmallProjects == {[p \in PathSet |-> DeclsAt(placed, p)] :
                    placed \in {S \in Placements(MaxConcDecls) : WellFormed(S)}}

\* The declarations of a file in source order, as [line, decl] pairs.
RECURSIVE SortedDecls(_)
SortedDecls(ds) ==
    IF ds = {} THEN <<>>
    ELSE LET d == CHOOSE x \in ds : \A y \in ds : x <= y
         IN  <<[Line |-> d, Decl |-> Catalogue[d]]>> \o SortedDecls(ds \ {d})

\* go/parser's object resolution: the names a bare identifier of this file
\* resolves to with Obj.Kind == ast.Fun, the file's own free functions
\* (init is never declared in the package scope).
DeclaredFuncs(ds) ==
    {Catalogue[d].Name : d \in {x \in ds : Catalogue[x].Recv = "" /\ Catalogue[x].Name # n_init}}

NoFound == [valid |-> FALSE, results |-> EmptyBag]

\* No GetCallGraph has returned yet.  shared holds the keys whose returned
\* callee list still has the backing array of the analyzer's own list.
NoGraph == [valid |-> FALSE, edges |-> EmptyMap, shared |-> {}]

\* A new analyzer and a small directory without broken files.
InitCrossConc ==
    /\ project \in SmallProjects
    /\ functions = EmptyMap
    /\ methods = EmptyMap
    /\ calls = EmptyMap
    /\ methodCalls = EmptyMap
    /\ funcReferences = {}
    /\ walkIdx = Len(Paths)
    /\ runs = 0
    /\ found = NoFound
    /\ broken = {}
    /\ walkErr = ""
    /\ analyzed = <<>>
    /\ mu = [writer |-> FALSE, readers |-> 0]
    /\ afPc = "idle"
    /\ rdPc = "idle"
    /\ rdOp = "none"
    /\ graph = NoGraph

\* a.mu unlocked, no goroutine inside a method.
CrossLockStart ==
    /\ mu = [writer |-> FALSE, readers |-> 0]
    /\ afPc = "idle"
    /\ rdPc = "idle"
    /\ rdOp = "none"
    /\ graph = NoGraph

InitCross ==
    /\ project \in Projects
    /\ functions = EmptyMap
    /\ methods = EmptyMap
    /\ calls = EmptyMap
    /\ methodCalls = EmptyMap
    /\ funcReferences = {}
    /\ walkIdx = Len(Paths)
    /\ runs = 0
    /\ found = NoFound
    /\ broken = {}
    /\ walkErr = ""
    /\ analyzed = <<>>
    /\ CrossLockStart

\* A directory with files that cannot be read or parsed.
InitCrossWalk ==
    /\ project \in Projects
    /\ functions = EmptyMap
    /\ methods = EmptyMap
    /\ calls = EmptyMap
    /\ methodCalls = EmptyMap
    /\ funcReferences = {}
    /\ walkIdx = Len(Paths)
    /\ runs = 0
    /\ found = NoFound
    /\ broken \in (SUBSET PathSet) \ {{}}
    /\ walkErr = ""
    /\ analyzed = <<>>
    /\ CrossLockStart

IdleCross ==
    /\ project = [p \in PathSet |-> {}]
    /\ functions = EmptyMap
    /\ methods = EmptyMap
    /\ calls = EmptyMap
    /\ methodCalls = EmptyMap
    /\ funcReferences = {}
    /\ walkIdx = Len(Paths)
    /\ runs = 0
    /\ found = NoFound
    /\ broken = {}
    /\ walkErr = ""
    /\ analyzed = <<>>
    /\ CrossLockStart

\* The program has constructed no CrossFileAnalyzer.
NoCross ==
    /\ project = [p \in PathSet |-> {}]
    /\ functions = EmptyMap
    /\ methods = EmptyMap
    /\ calls = EmptyMap
    /\ methodCalls = EmptyMap
    /\ funcReferences = {}
    /\ walkIdx = Len(Paths) + 1
    /\ runs = 0
    /\ found = NoFound
    /\ broken = {}
    /\ walkErr = ""
    /\ analyzed = <<>>
    /\ CrossLockStart

\* The analyzer's maps as one value, for the helpers below.
Facts == [functions |-> functions, methods |-> methods, calls |-> calls,
          methodCalls |-> methodCalls, funcReferences |-> funcReferences]

\* registerFunction
registerFunction(a, line, node, filePath) ==
    LET funcInfo == [Name |-> node.Name,
                     File |-> filePath,
                     Exported |-> IsExported(node.Name),
                     IsMain |-> node.Name = n_main,
                     IsTest |-> HasPrefix(node.Name, <<"T", "e", "s", "t">>)
                                \/ HasSuffix(node.Name, <<"T", "e", "s", "t">>),
                     IsInit |-> node.Name = n_init,
                     IsMethod |-> node.Recv # "",
                     Receiver |-> node.Recv,
                     Line |-> line]
    IN  IF node.Recv # ""
        THEN [a EXCEPT !.methods =
                 Put(@, node.Recv, Put(MapGet(@, node.Recv, EmptyMap), node.Name, funcInfo))]
        ELSE [a EXCEPT !.functions =
                 Put(@, filePath, Put(MapGet(@, filePath, EmptyMap), node.Name, funcInfo))]

\* collectDeclarations
RECURSIVE collectDeclarations(_, _, _)
collectDeclarations(a, decls, filePath) ==
    IF decls = <<>> THEN a
    ELSE collectDeclarations(registerFunction(a, Head(decls).Line, Head(decls).Decl, filePath),
                             Tail(decls), filePath)

\* A recordCall that starts a new map of call edges at every call.
recordCallFreshMap(a, filePath, caller, callee) ==
    [a EXCEPT !.calls = Put(EmptyMap, <<filePath, caller>>, <<callee>>)]

\* recordCall, recordMethodCall
recordCall(a, filePath, caller, callee) ==
    [a EXCEPT !.calls = Put(@, <<filePath, caller>>,
                            Append(MapGet(@, <<filePath, caller>>, <<>>), callee))]

recordMethodCall(a, filePath, caller, methodName) ==
    [a EXCEPT !.methodCalls = Put(@, <<filePath, caller>>,
                                  Append(MapGet(@, <<filePath, caller>>, <<>>), methodName))]

addReference(a, name) == [a EXCEPT !.funcReferences = @ \cup {name}]

\* The *ast.Ident case of collectCallsFromNode: a reference is recorded only
\* when the parser resolved the identifier to a function of the same file.
visitIdent(a, name, declared) ==
    IF name \in declared THEN addReference(a, name) ELSE a

\* collectCallsFromNode / recordCallExpr on one construct of a body; ast.Inspect
\* visits the call expression first and its operands after it.
visitItem(a, filePath, callerName, item, declared) ==
    CASE item.kind = "call" ->
            visitIdent(recordCall(a, filePath, callerName, item.name), item.name, declared)
      [] item.kind = "selcall" ->
            addReference(
                recordCall(recordMethodCall(a, filePath, callerName, item.name),
                           filePath, callerName, item.name),
                item.name)
      [] item.kind = "ident" ->
            recordCall(visitIdent(a, item.name, declared), filePath, callerName, n_h)
      [] item.kind = "arg" ->
            visitIdent(visitIdent(addReference(recordCall(a, filePath, callerName, n_process),
                                               item.name),
                                  n_process, declared),
                       item.name, declared)

RECURSIVE collectCallsFromNode(_, _, _, _, _)
collectCallsFromNode(a, filePath, callerName, body, declared) ==
    IF body = <<>> THEN a
    ELSE collectCallsFromNode(visitItem(a, filePath, callerName, Head(body), declared),
                              filePath, callerName, Tail(body), declared)

\* collectCalls
RECURSIVE collectCalls(_, _, _, _)
collectCalls(a, decls, filePath, declared) ==
    IF decls = <<>> THEN a
    ELSE collectCalls(collectCallsFromNode(a, filePath, Head(decls).Decl.Name,
                                           Head(decls).Decl.Body, declared),
                      Tail(decls), filePath, declared)

\* analyzeFile, the part under a.mu.Lock()
analyzeFile(a, filePath, ds) ==
    LET decls == SortedDecls(ds)
        reset == [a EXCEPT !.functions = Put(@, filePath, EmptyMap)]
    IN  collectCalls(collectDeclarations(reset, decls, filePath), decls, filePath,
                     DeclaredFuncs(ds))

\* isIgnoredFunction
isIgnoredFunctionNoExport(funcInfo) ==
    \/ funcInfo.IsMain
    \/ funcInfo.IsInit
    \/ funcInfo.IsTest
    \/ \E prefix \in ignoredPrefixes : HasPrefix(funcInfo.Name, prefix)

isIgnoredFunction(funcInfo) ==
    \/ funcInfo.IsMain
    \/ funcInfo.IsInit
    \/ funcInfo.IsTest
    \/ \E prefix \in ignoredPrefixes : HasPrefix(funcInfo.Name, prefix)
    \/ funcInfo.Exported

\* The callers the loops of isCalled and isMethodCalled range over: every
\* FunctionInfo held in a.functions and in a.methods.
registeredFunctions(a) ==
    UNION {{a.functions[f][n] : n \in DOMAIN a.functions[f]} : f \in DOMAIN a.functions}

registeredMethods(a) ==
    UNION {{a.methods[r][n] : n \in DOMAIN a.methods[r]} : r \in DOMAIN a.methods}

Contains(list, x) == \E i \in 1..Len(list) : list[i] = x

\* A caller counts only when it holds the name exactly once.
callsFromOnce(a, caller, name) ==
    Cardinality({i \in 1..Len(MapGet(a.calls, <<caller.File, caller.Name>>, <<>>)) :
                    MapGet(a.calls, <<caller.File, caller.Name>>, <<>>)[i] = name}) = 1

\* for _, callee := range a.calls[callerKey] { if callee == name ... }
callsFrom(a, caller, name) ==
    Contains(MapGet(a.calls, <<caller.File, caller.Name>>, <<>>), name)

methodCallsFrom(a, caller, name) ==
    Contains(MapGet(a.methodCalls, <<caller.File, caller.Name>>, <<>>), name)

\* An isCalled that counts only the calls made from main.
isCalledFromMain(a, funcInfo) ==
    \/ funcInfo.IsMain \/ funcInfo.IsInit \/ funcInfo.IsTest
    \/ \E caller \in registeredFunctions(a) :
          caller.IsMain /\ callsFrom(a, caller, funcInfo.Name)

\* isCalled
isCalled(a, funcInfo) ==
    \/ funcInfo.IsMain \/ funcInfo.IsInit \/ funcInfo.IsTest
    \/ funcInfo.Name \in a.funcReferences
    \/ \E caller \in registeredFunctions(a) : callsFrom(a, caller, funcInfo.Name)
    \/ \E caller \in registeredMethods(a) : callsFrom(a, caller, funcInfo.Name)

\* isMethodCalled
isMethodCalled(a, funcInfo) ==
    \/ funcInfo.IsMain \/ funcInfo.IsInit \/ funcInfo.IsTest
    \/ funcInfo.Name \in a.funcReferences
    \/ \E caller \in registeredFunctions(a) :
          methodCallsFrom(a, caller, funcInfo.Name) \/ callsFrom(a, caller, funcInfo.Name)
    \/ \E caller \in registeredMethods(a) :
          methodCallsFrom(a, caller, funcInfo.Name) \/ callsFrom(a, caller, funcInfo.Name)

\* buildUnusedFunctionResult, buildUnusedMethodResult
buildUnusedFunctionResult(filePath, name, funcInfo) ==
    [RuleID |-> "cross-file-unused-function",
     FilePath |-> filePath,
     Line |-> funcInfo.Line,
     Message |-> <<"Function '", name, "' is not called anywhere in the project">>]

buildUnusedMethodResult(name, funcInfo) ==
    [RuleID |-> "cross-file-unused-method",
     FilePath |-> funcInfo.File,
     Line |-> funcInfo.Line,
     Message |-> <<"Method '", name, "' on receiver '", funcInfo.Receiver,
                   "' is not called anywhere in the project">>]

\* The sum of the bags b[k], k in ks.
RECURSIVE BagSum(_, _)
BagSum(b, ks) ==
    IF ks = {} THEN EmptyBag
    ELSE LET k == CHOOSE x \in ks : TRUE
         IN  b[k] (+) BagSum(b, ks \ {k})

\* findUnusedRegularFunctions: one pass over every (file, name) entry.  The
\* order of the returned slice is Go's map iteration order; the model keeps
\* the results as a multiset.
findUnusedRegularFunctions(a) ==
    LET entries == {<<f, n>> : f \in DOMAIN a.functions,
                               n \in UNION {DOMAIN a.functions[g] : g \in DOMAIN a.functions}}
        ks == {e \in entries : e[2] \in DOMAIN a.functions[e[1]]}
        one == [e \in ks |->
                  LET funcInfo == a.functions[e[1]][e[2]]
                  IN  IF isIgnoredFunction(funcInfo) \/ isCalled(a, funcInfo)
                      THEN EmptyBag
                      ELSE SetToBag({buildUnusedFunctionResult(e[1], e[2], funcInfo)})]
    IN  BagSum(one, ks)

\* findUnusedMethods
findUnusedMethods(a) ==
    LET entries == {<<r, n>> : r \in DOMAIN a.methods,
                               n \in UNION {DOMAIN a.methods[g] : g \in DOMAIN a.methods}}
        ks == {e \in entries : e[2] \in DOMAIN a.methods[e[1]]}
        one == [e \in ks |->
                  LET funcInfo == a.methods[e[1]][e[2]]
                  IN  IF isIgnoredFunction(funcInfo) \/ isMethodCalled(a, funcInfo)
                      THEN EmptyBag
                      ELSE SetToBag({buildUnusedMethodResult(e[2], funcInfo)})]
    IN  BagSum(one, ks)

\* The capacity of a slice of length n that grew by appends of one element:
\* the runtime doubles the capacity of a small slice that is full.
RECURSIVE grow(_, _)
grow(n, capacity) == IF capacity >= n THEN capacity ELSE grow(n, 2 * capacity)

CapOf(n) == IF n = 0 THEN 0 ELSE grow(n, 1)

\* recordCall's append writes in place while the list has spare capacity and
\* moves the list to a new backing array when it is full.  Of the lists a
\* caller got from GetCallGraph, those the appends from old to new have not
\* moved still share their backing array with the analyzer's list.
StillShared(shared, old, new) ==
    {key \in shared : Len(new[key]) <= CapOf(Len(old[key]))}

\* AnalyzeDirectory is called: the walk starts at the first file.
AnalyzeDirectory ==
    /\ walkIdx = Len(Paths)
    /\ runs < MaxRuns
    /\ walkIdx' = 0
    /\ runs' = runs + 1
    /\ walkErr' = ""
    /\ analyzed' = <<>>
    /\ UNCHANGED <<project, functions, methods, calls, methodCalls, funcReferences, found,
                   broken>>
    /\ UNCHANGED crossLockVars
    /\ UNCHANGED <<poolVars, simVars, cacheVars>>

\* The walk callback that goes on after a file it could not read or parse.
AnalyzeFileSkipBroken ==
    /\ walkIdx < Len(Paths)
    /\ IF Paths[walkIdx + 1] \in broken
       THEN UNCHANGED <<functions, methods, calls, methodCalls, funcReferences, analyzed>>
       ELSE /\ \E a \in {analyzeFile(Facts, Paths[walkIdx + 1],
                                       project[Paths[walkIdx + 1]])} :
                  /\ functions' = a.functions
                  /\ methods' = a.methods
                  /\ calls' = a.calls
                  /\ methodCalls' = a.methodCalls
                  /\ funcReferences' = a.funcReferences
            /\ analyzed' = Append(analyzed, Paths[walkIdx + 1])
    /\ walkIdx' = walkIdx + 1
    /\ found' = NoFound
    /\ UNCHANGED <<project, runs, broken, walkErr>>
    /\ UNCHANGED crossLockVars
    /\ UNCHANGED <<poolVars, simVars, cacheVars>>

\* The walk visits its next file.  os.ReadFile or parser.ParseFile fails on a
\* broken file: analyzeFile returns the error before it takes the lock, the
\* callback returns it and filepath.Walk stops and returns it.  Otherwise
\* analyzeFile records the file under the write lock and the walk goes on.
AnalyzeFile ==
    /\ walkIdx < Len(Paths)
    /\ IF Paths[walkIdx + 1] \in broken
       THEN /\ walkErr' = Paths[walkIdx + 1]
            /\ walkIdx' = Len(Paths)
            /\ UNCHANGED <<functions, methods, calls, methodCalls, funcReferences,
                           analyzed>>
       ELSE /\ \E a \in {analyzeFile(Facts, Paths[walkIdx + 1],
                                       project[Paths[walkIdx + 1]])} :
                  /\ functions' = a.functions
                  /\ methods' = a.methods
                  /\ calls' = a.calls
                  /\ methodCalls' = a.methodCalls
                  /\ funcReferences' = a.funcReferences
            /\ walkIdx' = walkIdx + 1
            /\ analyzed' = Append(analyzed, Paths[walkIdx + 1])
            /\ UNCHANGED walkErr
    /\ found' = NoFound
    /\ graph' = [graph EXCEPT !.shared = StillShared(@, calls, calls')]
    /\ UNCHANGED <<project, runs, broken>>
    /\ UNCHANGED <<mu, afPc, rdPc, rdOp>>
    /\ UNCHANGED <<poolVars, simVars, cacheVars>>

\* FindUnusedFunctions, under the read lock.
FindUnusedFunctions ==
    /\ runs > 0
    /\ found' = [valid |-> TRUE,
                 results |-> findUnusedRegularFunctions(Facts) (+) findUnusedMethods(Facts)]
    /\ UNCHANGED <<project, functions, methods, calls, methodCalls, funcReferences,
                   walkIdx, runs, broken, walkErr, analyzed>>
    /\ UNCHANGED crossLockVars
    /\ UNCHANGED <<poolVars, simVars, cacheVars>>

\* GetCallGraph, under the read lock: a new map whose values are the
\* analyzer's own slices.
GetCallGraph ==
    /\ runs > 0
    /\ graph' = [valid |-> TRUE, edges |-> calls, shared |-> DOMAIN calls]
    /\ UNCHANGED <<project, functions, methods, calls, methodCalls, funcReferences,
                   walkIdx, runs, found, broken, walkErr, analyzed>>
    /\ UNCHANGED <<mu, afPc, rdPc, rdOp>>
    /\ UNCHANGED <<poolVars, simVars, cacheVars>>

\* The name a caller writes into a returned callee list.
n_x == <<"x">>

\* The caller of GetCallGraph assigns to an element of a returned callee
\* list, g[key][i] = "x": the element of the backing array is overwritten,
\* which is the analyzer's element too while the array is shared.
GraphSetCallee(key) ==
    /\ graph.valid
    /\ key \in DOMAIN graph.edges
    /\ \E i \in 1..Len(graph.edges[key]) :
          /\ graph.edges[key][i] # n_x
          /\ graph' = [graph EXCEPT !.edges[key][i] = n_x]
          /\ calls' = IF key \in graph.shared THEN [calls EXCEPT ![key][i] = n_x]
                      ELSE calls
    /\ UNCHANGED <<project, functions, methods, methodCalls, funcReferences,
                   walkIdx, runs, found, broken, walkErr, analyzed>>
    /\ UNCHANGED <<mu, afPc, rdPc, rdOp>>
    /\ UNCHANGED <<poolVars, simVars, cacheVars>>

\* The caller deletes an entry of the returned map, delete(g, key).
GraphDeleteKey(key) ==
    /\ graph.valid
    /\ key \in DOMAIN graph.edges
    /\ graph' = [graph EXCEPT !.edges = Remove(@, key), !.shared = @ \ {key}]
    /\ UNCHANGED <<project, functions, methods, calls, methodCalls, funcReferences,
                   walkIdx, runs, found, broken, walkErr, analyzed>>
    /\ UNCHANGED <<mu, afPc, rdPc, rdOp>>
    /\ UNCHANGED <<poolVars, simVars, cacheVars>>

\* The keys a.calls can have, file:caller.
CallKeys == {<<p, Catalogue[d].Name>> : p \in PathSet, d \in 1..Len(Catalogue)}

\* One goroutine that walks, queries and handles the returned call graph.
NextGraph ==
    \/ AnalyzeDirectory
    \/ AnalyzeFile
    \/ FindUnusedFunctions
    \/ GetCallGraph
    \/ \E key \in CallKeys : GraphSetCallee(key)
    \/ \E key \in CallKeys : GraphDeleteKey(key)

\* ---- the walk and a querying goroutine, step by step ----
\* The methods a second goroutine calls while the walk runs.
ReaderOps == {"Find", "Graph"}

\* analyzeFile, line 99: a.mu.Lock() after the file has been read and parsed.
FileLock ==
    /\ walkIdx < Len(Paths)
    /\ Paths[walkIdx + 1] \notin broken
    /\ afPc = "idle"
    /\ ~mu.writer
    /\ mu.readers = 0
    /\ mu' = [mu EXCEPT !.writer = TRUE]
    /\ afPc' = "decls"
    /\ UNCHANGED <<project, functions, methods, calls, methodCalls, funcReferences,
                   walkIdx, runs, found, broken, walkErr, analyzed, rdPc, rdOp, graph>>
    /\ UNCHANGED <<poolVars, simVars, cacheVars>>

\* analyzeFile, lines 102-105: the file's map is made anew and
\* collectDeclarations registers its declarations.
FileDeclarations ==
    /\ afPc = "decls"
    /\ \E a \in {collectDeclarations(
                     [Facts EXCEPT !.functions = Put(@, Paths[walkIdx + 1], EmptyMap)],
                     SortedDecls(project[Paths[walkIdx + 1]]), Paths[walkIdx + 1])} :
          /\ functions' = a.functions
          /\ methods' = a.methods
    /\ afPc' = "calls"
    /\ UNCHANGED <<project, calls, methodCalls, funcReferences, walkIdx, runs, found,
                   broken, walkErr, analyzed, mu, rdPc, rdOp, graph>>
    /\ UNCHANGED <<poolVars, simVars, cacheVars>>

\* analyzeFile, line 106: collectCalls records the call edges and references.
FileCalls ==
    /\ afPc = "calls"
    /\ \E a \in {collectCalls(Facts, SortedDecls(project[Paths[walkIdx + 1]]),
                               Paths[walkIdx + 1],
                               DeclaredFuncs(project[Paths[walkIdx + 1]]))} :
          /\ calls' = a.calls
          /\ methodCalls' = a.methodCalls
          /\ funcReferences' = a.funcReferences
    /\ afPc' = "unlock"
    /\ graph' = [graph EXCEPT !.shared = StillShared(@, calls, calls')]
    /\ UNCHANGED <<project, functions, methods, walkIdx, runs, found, broken, walkErr,
                   analyzed, mu, rdPc, rdOp>>
    /\ UNCHANGED <<poolVars, simVars, cacheVars>>

\* analyzeFile returns: the deferred a.mu.Unlock(); the walk goes on.
FileUnlock ==
    /\ afPc = "unlock"
    /\ mu' = [mu EXCEPT !.writer = FALSE]
    /\ afPc' = "idle"
    /\ walkIdx' = walkIdx + 1
    /\ analyzed' = Append(analyzed, Paths[walkIdx + 1])
    /\ UNCHANGED <<project, functions, methods, calls, methodCalls, funcReferences,
                   runs, found, broken, walkErr, rdPc, rdOp, graph>>
    /\ UNCHANGED <<poolVars, simVars, cacheVars>>

\* FindUnusedFunctions / GetCallGraph: a.mu.RLock() that does not wait for
\* the writer.
ReaderLockNoWait(op) ==
    /\ rdPc = "idle"
    /\ runs > 0
    /\ mu' = [mu EXCEPT !.readers = @ + 1]
    /\ rdPc' = "read"
    /\ rdOp' = op
    /\ UNCHANGED <<project, functions, methods, calls, methodCalls, funcReferences,
                   walkIdx, runs, found, broken, walkErr, analyzed, afPc, graph>>
    /\ UNCHANGED <<poolVars, simVars, cacheVars>>

\* FindUnusedFunctions, line 253, GetCallGraph, line 430: a.mu.RLock().
ReaderLock(op) ==
    /\ rdPc = "idle"
    /\ runs > 0
    /\ ~mu.writer
    /\ mu' = [mu EXCEPT !.readers = @ + 1]
    /\ rdPc' = "read"
    /\ rdOp' = op
    /\ UNCHANGED <<project, functions, methods, calls, methodCalls, funcReferences,
                   walkIdx, runs, found, broken, walkErr, analyzed, afPc, graph>>
    /\ UNCHANGED <<poolVars, simVars, cacheVars>>

\* The body of the method under the read lock: FindUnusedFunctions computes
\* its results, GetCallGraph copies the entries of a.calls into a new map;
\* each copied value is the slice the analyzer holds.
ReaderRead ==
    /\ rdPc = "read"
    /\ IF rdOp = "Find"
       THEN /\ found' = [valid |-> TRUE,
                         results |-> findUnusedRegularFunctions(Facts)
                                         (+) findUnusedMethods(Facts)]
            /\ UNCHANGED graph
       ELSE /\ graph' = [valid |-> TRUE, edges |-> calls, shared |-> DOMAIN calls]
            /\ UNCHANGED found
    /\ rdPc' = "unlock"
    /\ UNCHANGED <<project, functions, methods, calls, methodCalls, funcReferences,
                   walkIdx, runs, broken, walkErr, analyzed, mu, afPc, rdOp>>
    /\ UNCHANGED <<poolVars, simVars, cacheVars>>

\* The deferred a.mu.RUnlock().
ReaderUnlock ==
    /\ rdPc = "unlock"
    /\ mu' = [mu EXCEPT !.readers = @ - 1]
    /\ rdPc' = "idle"
    /\ rdOp' = "none"
    /\ UNCHANGED <<project, functions, methods, calls, methodCalls, funcReferences,
                   walkIdx, runs, found, broken, walkErr, analyzed, afPc, graph>>
    /\ UNCHANGED <<poolVars, simVars, cacheVars>>

NextCrossConc ==
    \/ AnalyzeDirectory
    \/ FileLock
    \/ FileDeclarations
    \/ FileCalls
    \/ FileUnlock
    \/ \E op \in ReaderOps : ReaderLock(op)
    \/ ReaderRead
    \/ ReaderUnlock

\* One goroutine that walks and asks both queries, and only reads the answers.
NextCrossQueries ==
    \/ AnalyzeDirectory
    \/ AnalyzeFile
    \/ FindUnusedFunctions
    \/ GetCallGraph

NextCross ==
    \/ AnalyzeDirectory
    \/ AnalyzeFile
    \/ FindUnusedFunctions

(***************************************************************************)
(* SimilarityAnalyzer                                                      *)
(***************************************************************************)
n_processX == <<"p", "r", "o", "c", "e", "s", "s", "X">>
n_processY == <<"p", "r", "o", "c", "e", "s", "s", "Y">>
n_handleData == <<"h", "a", "n", "d", "l", "e", "D", "a", "t", "a">>
n_initialize == <<"i", "n", "i", "t", "i", "a", "l", "i", "z", "e">>
n_mainLoop == <<"m", "a", "i", "n", "L", "o", "o", "p">>

\* The function declarations of the directory, in walk order.
SimDecls ==
    << [File |-> "file1.go", Name |-> n_processX, HasBody |-> TRUE],
       [File |-> "file2.go", Name |-> n_processY, HasBody |-> TRUE],
       [File |-> "file2.go", Name |-> n_handleData, HasBody |-> TRUE] >>

\* A body is the sequence of its AST nodes in the order ast.Inspect visits
\* them; identifiers (and literals) are nodes that yield no token.
NodeKinds == {"IfStmt", "ForStmt", "Ident"}

Bodies == UNION {[1..n -> NodeKinds] : n \in 0..MaxNodes}

\* The thresholds AnalyzeDirectory is called with, in tenths.
Thresholds == {5, 7, 10}

\* isIgnoredFunctionName
isIgnoredFunctionName(name) ==
    \E prefix \in {n_init, n_main, <<"T", "e", "s", "t">>,
                   <<"B", "e", "n", "c", "h", "m", "a", "r", "k">>,
                   <<"E", "x", "a", "m", "p", "l", "e">>} : HasPrefix(name, prefix)

\* The switch of getNormalizedBody: the token of a node, "" for a node that
\* yields none.
TokenOf(kind) ==
    CASE kind = "IfStmt" -> "IF"
      [] kind = "ForStmt" -> "FOR"
      [] kind = "RangeStmt" -> "RANGE"
      [] kind = "SwitchStmt" -> "SWITCH"
      [] kind = "TypeSwitchStmt" -> "TYPE_SWITCH"
      [] kind = "SelectStmt" -> "SELECT"
      [] kind = "ReturnStmt" -> "RETURN"
      [] kind = "BranchStmt" -> "BREAK"
      [] kind = "AssignStmt" -> "ASSIGN"
      [] kind = "CallExpr" -> "CALL"
      [] kind = "BinaryExpr" -> "EXPR"
      [] kind = "UnaryExpr" -> "UNARY"
      [] OTHER -> ""

\* strings.Join(tokens, " "): a string is the sequence of its tokens and of
\* the separators between them.
RECURSIVE Join(_)
Join(tokens) ==
    IF tokens = <<>> THEN <<>>
    ELSE IF Len(tokens) = 1 THEN tokens
    ELSE <<Head(tokens), " ">> \o Join(Tail(tokens))

\* strings.Fields
Fields(str) == SelectSeq(str, LAMBDA c : c # " ")

\* getNormalizedBody
RECURSIVE bodyTokens(_)
bodyTokens(body) ==
    IF body = <<>> THEN <<>>
    ELSE (IF TokenOf(Head(body)) = "" THEN <<>> ELSE <<TokenOf(Head(body))>>)
         \o bodyTokens(Tail(body))

getNormalizedBody(body) == Join(bodyTokens(body))

\* SimilarityAnalyzer.analyzeFile on every file of the walk: each function
\* with a body (node.Body != nil) and a name that is not ignored is stored
\* under file:name.
RECURSIVE analyzeFiles(_, _, _)
analyzeFiles(bodies, decls, i) ==
    IF i > Len(decls) THEN bodies
    ELSE analyzeFiles(
            IF ~decls[i].HasBody \/ isIgnoredFunctionName(decls[i].Name) THEN bodies
            ELSE Put(bodies, <<decls[i].File, decls[i].Name>>,
                     getNormalizedBody(simProject[i])),
            decls, i + 1)

\* A score is the fraction num / den.
Score(num, den) == [num |-> num, den |-> den]

\* The inner loops of calculateSimilarity: the tokens of tokens1 that have an
\* equal token in tokens2.
matchCountNoBreak(tokens1, tokens2) ==
    Cardinality({<<i, j>> \in (1..Len(tokens1)) \X (1..Len(tokens2)) :
                    tokens1[i] = tokens2[j]})

matchCount(tokens1, tokens2) ==
    Cardinality({i \in 1..Len(tokens1) : \E j \in 1..Len(tokens2) : tokens1[i] = tokens2[j]})

\* calculateSimilarity
calculateSimilarity(bodies, key1, key2) ==
    LET body1 == MapGet(bodies, key1, <<>>)
        body2 == MapGet(bodies, key2, <<>>)
        tokens1 == Fields(body1)
        tokens2 == Fields(body2)
        smaller == IF Len(tokens2) < Len(tokens1) THEN Len(tokens2) ELSE Len(tokens1)
    IN  IF Len(body1) = 0 \/ Len(body2) = 0 THEN Score(0, 1)
        ELSE IF Len(tokens1) = 0 \/ Len(tokens2) = 0 THEN Score(0, 1)
        ELSE IF smaller = 0 THEN Score(0, 1)
        ELSE Score(matchCount(tokens1, tokens2), smaller)

\* sim >= threshold, the threshold in tenths
aboveThreshold(sim, tenths) == sim.num * 10 > tenths * sim.den

atLeastThreshold(sim, tenths) == sim.num * 10 >= tenths * sim.den

\* The double loop of findSimilarFunctions over keys, the keys of
\* a.funcBodies in the order the map iteration produced them.
RECURSIVE findSimilarFrom(_, _, _, _, _)
findSimilarFrom(bodies, order, tenths, i, j) ==
    IF i > Len(order) THEN <<>>
    ELSE IF j > Len(order) THEN findSimilarFrom(bodies, order, tenths, i + 1, i + 2)
    ELSE LET sim == calculateSimilarity(bodies, order[i], order[j])
         IN  (IF atLeastThreshold(sim, tenths)
              THEN <<[File1 |-> order[i], File2 |-> order[j], Similarity |-> sim,
                      Message |-> "Similar code patterns detected"]>>
              ELSE <<>>)
             \o findSimilarFrom(bodies, order, tenths, i, j + 1)

findSimilarFunctions(bodies, order, tenths) == findSimilarFrom(bodies, order, tenths, 1, 2)

\* The orders in which a map iteration can produce the keys.
KeyOrders(keySet) ==
    {order \in [1..Cardinality(keySet) -> keySet] :
        \A i, j \in 1..Cardinality(keySet) : order[i] = order[j] => i = j}

\* AnalyzeDirectory, lines 170-181: one core.Result per similarity.
toResults(sims) ==
    [i \in 1..Len(sims) |->
        [RuleID |-> "code-similarity", FilePath |-> sims[i].File1, Line |-> 0,
         Message |-> sims[i].Message]]

InitSim ==
    /\ simDecls = SimDecls
    /\ simProject \in [1..Len(SimDecls) -> Bodies]
    /\ funcBodies = EmptyMap
    /\ threshold = 0
    /\ keys = <<>>
    /\ similarities = <<>>
    /\ simResults = <<>>
    /\ simPc = "idle"
    /\ simBroken = {}
    /\ simErr = ""

SimFiles == {SimDecls[i].File : i \in 1..Len(SimDecls)}

\* The names a declaration of one file can have, the five ignored names and
\* prefixes among them.
SimNames == {n_init, n_main, n_initialize, n_mainLoop, n_TestRun, n_BenchmarkRun,
             n_ExampleRun, n_processX}

\* A file of two declarations with different names; a declaration without a
\* body is one implemented outside Go.
NamedDecls ==
    {<<[File |-> "file1.go", Name |-> n1, HasBody |-> b1],
       [File |-> "file1.go", Name |-> n2, HasBody |-> b2]>> :
        <<n1, n2, b1, b2>> \in {t \in SimNames \X SimNames \X BOOLEAN \X BOOLEAN :
                                   t[1] # t[2]}}

\* A directory of one readable file whose declarations have any of the names.
InitSimNames ==
    /\ simDecls \in NamedDecls
    /\ simProject \in [1..2 -> {<<"IfStmt">>, <<"ForStmt">>}]
    /\ funcBodies = EmptyMap
    /\ threshold = 0
    /\ keys = <<>>
    /\ similarities = <<>>
    /\ simResults = <<>>
    /\ simPc = "idle"
    /\ simBroken = {}
    /\ simErr = ""

\* A directory with files that cannot be read or parsed.
InitSimWalk ==
    /\ simDecls = SimDecls
    /\ simProject \in [1..Len(SimDecls) -> Bodies]
    /\ funcBodies = EmptyMap
    /\ threshold = 0
    /\ keys = <<>>
    /\ similarities = <<>>
    /\ simResults = <<>>
    /\ simPc = "idle"
    /\ simBroken \in (SUBSET SimFiles) \ {{}}
    /\ simErr = ""

IdleSim ==
    /\ simDecls = SimDecls
    /\ simProject = [i \in 1..Len(SimDecls) |-> <<>>]
    /\ funcBodies = EmptyMap
    /\ threshold = 0
    /\ keys = <<>>
    /\ similarities = <<>>
    /\ simResults = <<>>
    /\ simPc = "idle"
    /\ simBroken = {}
    /\ simErr = ""

\* The program has constructed no SimilarityAnalyzer.
NoSim ==
    /\ simDecls = SimDecls
    /\ simProject = [i \in 1..Len(SimDecls) |-> <<>>]
    /\ funcBodies = EmptyMap
    /\ threshold = 0
    /\ keys = <<>>
    /\ similarities = <<>>
    /\ simResults = <<>>
    /\ simPc = "none"
    /\ simBroken = {}
    /\ simErr = ""

\* Where the walk stops: the first declaration of the first file that
\* analyzeFile fails on, or past the last declaration when there is none.
walkStop(decls, bad) ==
    IF \E i \in 1..Len(decls) : decls[i].File \in bad
    THEN CHOOSE i \in 1..Len(decls) :
            /\ decls[i].File \in bad
            /\ \A j \in 1..(i - 1) : decls[j].File \notin bad
    ELSE Len(decls) + 1

\* SimilarityAnalyzer.AnalyzeDirectory(ctx, dirPath, threshold): the walk
\* records file after file; an error of the walk is returned with nil results
\* before findSimilarFunctions is called.
SimAnalyzeDirectory ==
    /\ simPc = "idle"
    /\ threshold' \in Thresholds
    /\ \E stop \in {walkStop(simDecls, simBroken)} :
          /\ funcBodies' = analyzeFiles(funcBodies, SubSeq(simDecls, 1, stop - 1), 1)
          /\ IF stop <= Len(simDecls)
             THEN /\ simErr' = simDecls[stop].File
                  /\ keys' = <<>>
                  /\ similarities' = <<>>
                  /\ simResults' = <<>>
             ELSE /\ simErr' = ""
                  /\ keys' \in KeyOrders(DOMAIN funcBodies')
                  /\ similarities' = findSimilarFunctions(funcBodies', keys', threshold')
                  /\ simResults' = toResults(similarities')
    /\ simPc' = "done"
    /\ UNCHANGED <<simDecls, simProject, simBroken>>
    /\ UNCHANGED <<poolVars, crossVars, cacheVars>>

NextSim == SimAnalyzeDirectory

(***************************************************************************)
(* ASTCache                                                                *)
(*                                                                         *)
(* Time is counted in ticks of 150 seconds, so that the default max age of *)
(* five minutes is two ticks.  A parsed artifact, the ast.File and its    *)
(* FileSet, is a pair of positive numbers; 0 is nil.                       *)
(***************************************************************************)
CachePaths == {"x.go", "y.go"}

Nil == 0

Files == 1..MaxArtifacts

\* Every Set of a parser passes the parser's one FileSet.
FileSets == {1}

FiveMinutes == 2

\* The maxAge arguments the constructor is called with.
MaxAgeArgs == {0, 1}


\* os.Stat
Stat(files, filePath) ==
    IF filePath \in DOMAIN files
    THEN [err |-> FALSE, ModTime |-> files[filePath]]
    ELSE [err |-> TRUE, ModTime |-> 0]

\* NewASTCache
NewASTCache(age) ==
    [cache |-> EmptyMap, maxAge |-> IF age = 0 THEN FiveMinutes ELSE age]

\* time.Since
Since(t, modTime) == t - modTime

\* ASTCache.Get at time t: the cache map afterwards and the returned triple.
GetNoExpiry(c, filePath, t) ==
    IF filePath \notin DOMAIN c.cache
    THEN [cache |-> c.cache, file |-> Nil, fset |-> Nil, ok |-> FALSE]
    ELSE [cache |-> c.cache, file |-> c.cache[filePath].file,
          fset |-> c.cache[filePath].fset, ok |-> TRUE]

\* A Get that stats the file and drops an entry whose file was removed or
\* modified since it was stored.
GetCheckingDisk(c, filePath, t) ==
    IF filePath \notin DOMAIN c.cache
    THEN [cache |-> c.cache, file |-> Nil, fset |-> Nil, ok |-> FALSE]
    ELSE IF \/ Since(t, c.cache[filePath].modTime) > c.maxAge
            \/ Stat(disk, filePath).err
            \/ Stat(disk, filePath).ModTime # c.cache[filePath].modTime
         THEN [cache |-> Remove(c.cache, filePath), file |-> Nil, fset |-> Nil,
               ok |-> FALSE]
         ELSE [cache |-> c.cache, file |-> c.cache[filePath].file,
               fset |-> c.cache[filePath].fset, ok |-> TRUE]

Get(c, filePath, t) ==
    IF filePath \notin DOMAIN c.cache
    THEN [cache |-> c.cache, file |-> Nil, fset |-> Nil, ok |-> FALSE]
    ELSE IF Since(t, c.cache[filePath].modTime) > c.maxAge
         THEN [cache |-> Remove(c.cache, filePath), file |-> Nil, fset |-> Nil,
               ok |-> FALSE]
         ELSE [cache |-> c.cache, file |-> c.cache[filePath].file,
               fset |-> c.cache[filePath].fset, ok |-> TRUE]

\* A Set that drops the entry of a file it cannot stat.
SetDropOnStatError(c, filePath, file, fset, stat) ==
    IF stat.err THEN Remove(c.cache, filePath)
    ELSE Put(c.cache, filePath,
             [file |-> file, fset |-> fset, modTime |-> stat.ModTime,
              filePath |-> filePath])

\* ASTCache.Set with the outcome stat of os.Stat(filePath): the cache map
\* afterwards.
Set(c, filePath, file, fset, stat) ==
    IF stat.err THEN c.cache
    ELSE Put(c.cache, filePath,
             [file |-> file, fset |-> fset, modTime |-> stat.ModTime,
              filePath |-> filePath])

\* ASTCache.Invalidate, InvalidateAll, Size
InvalidateKeep(c, filePath) == c.cache

Invalidate(c, filePath) == Remove(c.cache, filePath)

InvalidateAll(c) == EmptyMap

Size(c) == Cardinality(DOMAIN c.cache)

\* CacheStats; the zero value is what Stats starts from.
CacheStats(entries) ==
    [Entries |-> entries, MaxAge |-> 0, MinAge |-> 0, AvgAge |-> 0, TotalAge |-> 0]

\* The loop of Stats over the entries not visited yet.
RECURSIVE statsLoop(_, _, _, _)
statsLoop(stats, c, rest, t) ==
    IF rest = {} THEN stats
    ELSE LET filePath == CHOOSE x \in rest : TRUE
             age == Since(t, c.cache[filePath].modTime)
         IN  statsLoop([stats EXCEPT
                          !.MaxAge = IF age > @ THEN age ELSE @,
                          !.MinAge = IF age < @ THEN age ELSE @,
                          !.TotalAge = @ + age],
                       c, rest \ {filePath}, t)

\* ASTCache.Stats at time t
Stats(c, t) ==
    LET stats == statsLoop(CacheStats(Cardinality(DOMAIN c.cache)), c, DOMAIN c.cache, t)
    IN  IF stats.Entries > 0
        THEN [stats EXCEPT !.AvgAge = stats.TotalAge \div stats.Entries]
        ELSE stats

\* The cache object as the methods see it.
TheCache == [cache |-> cache, maxAge |-> maxAge]

NoPending == [set |-> FALSE, path |-> "", file |-> Nil, fset |-> Nil, at |-> 0]

NoRet ==
    [op |-> "none", path |-> "", ok |-> FALSE, file |-> Nil, fset |-> Nil, n |-> 0,
     stats |-> CacheStats(0), before |-> EmptyMap, afterSet |-> NoPending]

\* The goroutines that share the cache, e.g. two workers of the pool.
Callers == {"g1", "g2"}

ReadLocked == {"Get", "Size", "Stats"}

WriteLocked == {"Set", "Invalidate", "InvalidateAll"}

InitLock ==
    /\ callPc = [g \in Callers |-> "idle"]
    /\ callOp = [g \in Callers |-> "none"]
    /\ callPath = [g \in Callers |-> ""]
    /\ readers = {}
    /\ writer = "none"
    /\ crashed = FALSE

InitCache ==
    /\ now = 0
    /\ disk \in {[x \in S |-> 0] : S \in SUBSET CachePaths}
    /\ cache = EmptyMap
    /\ maxAge \in {NewASTCache(age).maxAge : age \in MaxAgeArgs}
    /\ pending = NoPending
    /\ ret = NoRet
    /\ InitLock

IdleCache ==
    /\ now = 0
    /\ disk = EmptyMap
    /\ cache = EmptyMap
    /\ maxAge = NewASTCache(0).maxAge
    /\ pending = NoPending
    /\ ret = NoRet
    /\ InitLock

\* Time passes.
Tick ==
    /\ now < MaxClock
    /\ now' = now + 1
    /\ ret' = NoRet
    /\ UNCHANGED <<disk, cache, maxAge, pending>>
    /\ UNCHANGED <<poolVars, crossVars, simVars, lockVars>>

\* A file is written (created or modified) or removed on disk.
WriteFile(filePath) ==
    /\ disk' = Put(disk, filePath, now)
    /\ pending' = IF pending.path = filePath THEN NoPending ELSE pending
    /\ ret' = NoRet
    /\ UNCHANGED <<now, cache, maxAge>>
    /\ UNCHANGED <<poolVars, crossVars, simVars, lockVars>>

RemoveFile(filePath) ==
    /\ filePath \in DOMAIN disk
    /\ disk' = Remove(disk, filePath)
    /\ pending' = IF pending.path = filePath THEN NoPending ELSE pending
    /\ ret' = NoRet
    /\ UNCHANGED <<now, cache, maxAge>>
    /\ UNCHANGED <<poolVars, crossVars, simVars, lockVars>>

\* A call of c.Get(filePath).
CacheGet(filePath) ==
    /\ \E r \in {Get(TheCache, filePath, now)} :
          /\ cache' = r.cache
          /\ ret' = [NoRet EXCEPT !.op = "Get", !.path = filePath, !.ok = r.ok,
                                  !.file = r.file, !.fset = r.fset,
                                  !.before = cache, !.afterSet = pending]
    /\ pending' = NoPending
    /\ UNCHANGED <<now, disk, maxAge>>
    /\ UNCHANGED <<poolVars, crossVars, simVars, lockVars>>

\* A call of c.Set(filePath, file, fset); ok records whether the stat succeeded.
CacheSet(filePath, file, fset) ==
    /\ \E stat \in {Stat(disk, filePath)} :
          /\ cache' = Set(TheCache, filePath, file, fset, stat)
          /\ ret' = [NoRet EXCEPT !.op = "Set", !.path = filePath, !.ok = ~stat.err,
                                  !.file = file, !.fset = fset, !.before = cache]
          /\ pending' = IF stat.err THEN NoPending
                        ELSE [set |-> TRUE, path |-> filePath, file |-> file,
                              fset |-> fset, at |-> now]
    /\ UNCHANGED <<now, disk, maxAge>>
    /\ UNCHANGED <<poolVars, crossVars, simVars, lockVars>>

\* A call of c.Invalidate(filePath).
CacheInvalidate(filePath) ==
    /\ cache' = Invalidate(TheCache, filePath)
    /\ ret' = [NoRet EXCEPT !.op = "Invalidate", !.path = filePath, !.before = cache]
    /\ pending' = NoPending
    /\ UNCHANGED <<now, disk, maxAge>>
    /\ UNCHANGED <<poolVars, crossVars, simVars, lockVars>>

\* A call of c.InvalidateAll().
CacheInvalidateAll ==
    /\ cache' = InvalidateAll(TheCache)
    /\ ret' = [NoRet EXCEPT !.op = "InvalidateAll", !.before = cache]
    /\ pending' = NoPending
    /\ UNCHANGED <<now, disk, maxAge>>
    /\ UNCHANGED <<poolVars, crossVars, simVars, lockVars>>

\* A call of c.Size().
CacheSize ==
    /\ ret' = [NoRet EXCEPT !.op = "Size", !.n = Size(TheCache), !.before = cache]
    /\ pending' = NoPending
    /\ UNCHANGED <<now, disk, cache, maxAge>>
    /\ UNCHANGED <<poolVars, crossVars, simVars, lockVars>>

\* A call of c.Stats().
CacheStatsCall ==
    /\ ret' = [NoRet EXCEPT !.op = "Stats", !.stats = Stats(TheCache, now),
                            !.before = cache]
    /\ pending' = NoPending
    /\ UNCHANGED <<now, disk, cache, maxAge>>
    /\ UNCHANGED <<poolVars, crossVars, simVars, lockVars>>

\* shouldIgnoreFile: a base name that starts with "_", or ends in _test.go
\* when the configuration ignores tests.  No path of CachePaths is ignored.
shouldIgnoreFile(filePath) == filePath \notin CachePaths

\* A call of p.ParseFile(ctx, filePath) on a parser with this cache: a hit of
\* Get is returned as it is; on a miss the file is read and parsed, the
\* outcome parsed being the new artifact or Nil for a syntax error, and the
\* artifact is handed to Set with the parser's file set.
ParseFile(filePath, parsed) ==
    /\ \E r \in {Get(TheCache, filePath, now)} :
          IF r.ok
          THEN /\ cache' = r.cache
               /\ ret' = [NoRet EXCEPT !.op = "ParseFile", !.path = filePath,
                                       !.ok = TRUE, !.file = r.file, !.fset = r.fset,
                                       !.before = cache]
               /\ pending' = NoPending
          ELSE IF shouldIgnoreFile(filePath) \/ filePath \notin DOMAIN disk \/ parsed = Nil
          THEN /\ cache' = r.cache
               /\ ret' = [NoRet EXCEPT !.op = "ParseFile", !.path = filePath,
                                       !.before = cache]
               /\ pending' = NoPending
          ELSE /\ cache' = Set([cache |-> r.cache, maxAge |-> maxAge], filePath, parsed, 1,
                               Stat(disk, filePath))
               /\ ret' = [NoRet EXCEPT !.op = "ParseFile", !.path = filePath,
                                       !.ok = TRUE, !.file = parsed, !.fset = 1,
                                       !.before = cache]
               /\ pending' = [set |-> TRUE, path |-> filePath, file |-> parsed,
                              fset |-> 1, at |-> now]
    /\ UNCHANGED <<now, disk, maxAge>>
    /\ UNCHANGED <<poolVars, crossVars, simVars, lockVars>>

NextCache ==
    \/ Tick
    \/ \E filePath \in CachePaths : WriteFile(filePath)
    \/ \E filePath \in CachePaths : RemoveFile(filePath)
    \/ \E filePath \in CachePaths : CacheGet(filePath)
    \/ \E filePath \in CachePaths, file \in Files, fset \in FileSets :
          CacheSet(filePath, file, fset)
    \/ \E filePath \in CachePaths : CacheInvalidate(filePath)
    \/ CacheInvalidateAll
    \/ CacheSize
    \/ CacheStatsCall
    \/ \E filePath \in CachePaths, parsed \in Files \cup {Nil} : ParseFile(filePath, parsed)

(***************************************************************************)
(* ASTCache under concurrent callers                                       *)
(*                                                                         *)
(* Each caller runs one method at a time: it takes c.mu (RLock for Get,    *)
(* Size and Stats, Lock for Set, Invalidate and InvalidateAll), accesses   *)
(* the map and releases the lock.  A caller at "read" or "write" is in the *)
(* middle of that access of the map.                                       *)
(***************************************************************************)
\* The cache is shared by the callers; the files were written at time 0.
InitCacheConc ==
    /\ now = 0
    /\ disk = [x \in CachePaths |-> 0]
    /\ cache = EmptyMap
    /\ maxAge \in {NewASTCache(age).maxAge : age \in MaxAgeArgs}
    /\ pending = NoPending
    /\ ret = NoRet
    /\ InitLock

\* Another caller is accessing the map while g reads it or modifies it, and
\* one of the two accesses is a modification.
Racing(g) ==
    \E h \in Callers \ {g} :
        \/ callPc[g] = "write" /\ callPc[h] \in {"read", "write"}
        \/ callPc[g] = "read" /\ callPc[h] = "write"

\* A goroutine calls a method of the cache.
Call(g, op, filePath) ==
    /\ ~crashed
    /\ callPc[g] = "idle"
    /\ callPc' = [callPc EXCEPT ![g] = "acquire"]
    /\ callOp' = [callOp EXCEPT ![g] = op]
    /\ callPath' = [callPath EXCEPT ![g] = filePath]
    /\ UNCHANGED <<readers, writer, crashed>>
    /\ UNCHANGED <<now, disk, cache, maxAge, pending, ret>>
    /\ UNCHANGED <<poolVars, crossVars, simVars>>

\* c.mu.RLock() / c.mu.Lock(), followed by the start of the first access of
\* the map.
Acquire(g) ==
    /\ ~crashed
    /\ callPc[g] = "acquire"
    /\ writer = "none"
    /\ IF callOp[g] \in ReadLocked
       THEN /\ readers' = readers \cup {g}
            /\ callPc' = [callPc EXCEPT ![g] = "read"]
            /\ UNCHANGED writer
       ELSE /\ readers = {}
            /\ writer' = g
            /\ callPc' = [callPc EXCEPT ![g] = "write"]
            /\ UNCHANGED readers
    /\ UNCHANGED <<callOp, callPath, crashed>>
    /\ UNCHANGED <<now, disk, cache, maxAge, pending, ret>>
    /\ UNCHANGED <<poolVars, crossVars, simVars>>

\* The read of the map ends: the lookup of Get (lines 575-580), len of Size,
\* len and range of Stats.  Get goes on to delete an expired entry.  A read
\* that overlaps a modification is a data race: the runtime may abort the
\* process, or the read yields either outcome.
EndRead(g) ==
    /\ ~crashed
    /\ callPc[g] = "read"
    /\ \/ /\ callOp[g] = "Get"
          /\ \/ Get(TheCache, callPath[g], now).cache # cache
             \/ Racing(g)
          /\ callPc' = [callPc EXCEPT ![g] = "write"]
          /\ UNCHANGED crashed
       \/ /\ \/ callOp[g] # "Get"
             \/ Get(TheCache, callPath[g], now).cache = cache
             \/ Racing(g)
          /\ callPc' = [callPc EXCEPT ![g] = "release"]
          /\ UNCHANGED crashed
       \/ /\ Racing(g)
          /\ crashed' = TRUE
          /\ UNCHANGED callPc
    /\ UNCHANGED <<callOp, callPath, readers, writer>>
    /\ UNCHANGED <<now, disk, cache, maxAge, pending, ret>>
    /\ UNCHANGED <<poolVars, crossVars, simVars>>

\* The map after the modification of the method g runs.
Modified(g, file, fset) ==
    CASE callOp[g] = "Get" -> Remove(cache, callPath[g])
      [] callOp[g] = "Set" -> Set(TheCache, callPath[g], file, fset, Stat(disk, callPath[g]))
      [] callOp[g] = "Invalidate" -> Invalidate(TheCache, callPath[g])
      [] callOp[g] = "InvalidateAll" -> InvalidateAll(TheCache)
      [] OTHER -> cache

\* The modification of the map ends: delete (lines 581, 608), the store of
\* Set (line 597), the replacement of the map (line 614).  A modification
\* that overlaps another access is a data race, which the runtime may answer
\* by aborting the process.
EndWrite(g) ==
    /\ ~crashed
    /\ callPc[g] = "write"
    /\ \/ /\ \E file \in Files, fset \in FileSets : cache' = Modified(g, file, fset)
          /\ callPc' = [callPc EXCEPT ![g] = "release"]
          /\ UNCHANGED crashed
       \/ /\ Racing(g)
          /\ crashed' = TRUE
          /\ UNCHANGED <<cache, callPc>>
    /\ UNCHANGED <<callOp, callPath, readers, writer>>
    /\ UNCHANGED <<now, disk, maxAge, pending, ret>>
    /\ UNCHANGED <<poolVars, crossVars, simVars>>

\* The deferred c.mu.RUnlock() / c.mu.Unlock(); the method returns.
Release(g) ==
    /\ ~crashed
    /\ callPc[g] = "release"
    /\ readers' = readers \ {g}
    /\ writer' = IF writer = g THEN "none" ELSE writer
    /\ callPc' = [callPc EXCEPT ![g] = "idle"]
    /\ callOp' = [callOp EXCEPT ![g] = "none"]
    /\ callPath' = [callPath EXCEPT ![g] = ""]
    /\ UNCHANGED crashed
    /\ UNCHANGED <<now, disk, cache, maxAge, pending, ret>>
    /\ UNCHANGED <<poolVars, crossVars, simVars>>

NextCacheConc ==
    \/ Tick
    \/ \E g \in Callers, op \in {"Get", "Set", "Invalidate"}, filePath \in CachePaths :
          Call(g, op, filePath)
    \/ \E g \in Callers, op \in {"InvalidateAll", "Size", "Stats"} : Call(g, op, "")
    \/ \E g \in Callers : Acquire(g)
    \/ \E g \in Callers : EndRead(g)
    \/ \E g \in Callers : EndWrite(g)
    \/ \E g \in Callers : Release(g)

IdlePool ==
    /\ filePaths = <<>>
    /\ workersArg = 1
    /\ numCPU = 1
    /\ workerNum = 1
    /\ analyzeErr = {}
    /\ ctxDone = FALSE
    /\ PoolStart

(***************************************************************************)
(* Specifications                                                          *)
(***************************************************************************)
\* The state after construction: the analyzer under study is fresh and the
\* other two are left untouched.
PoolInit == InitPool /\ IdleCross /\ IdleSim /\ IdleCache

CrossInit == IdlePool /\ InitCross /\ IdleSim /\ IdleCache

SimInit == IdlePool /\ IdleCross /\ InitSim /\ IdleCache

CacheInit == IdlePool /\ IdleCross /\ IdleSim /\ InitCache

CacheConcInit == IdlePool /\ IdleCross /\ IdleSim /\ InitCacheConc

SpecPool == PoolInit /\ [][NextPool]_vars

\* The Go scheduler does not stop while a goroutine of the pool can take a
\* step.
FairSpecPool ==
    /\ PoolInit
    /\ [][NextPool]_vars
    /\ WF_vars(NextPool)

PoolCtorInit == InitPoolCtor /\ IdleCross /\ IdleSim /\ IdleCache

SpecPoolCtor == PoolCtorInit /\ [][NextPool]_vars

PoolCtxInit == InitPoolCtx /\ IdleCross /\ IdleSim /\ IdleCache

\* The scheduler's fairness as in FairSpecPool; nothing obliges the owner of
\* the context to cancel it.
FairSpecPoolCtx ==
    /\ PoolCtxInit
    /\ [][NextPoolCtx]_vars
    /\ WF_vars(NextPool)

SpecCross == CrossInit /\ [][NextCross]_vars

CrossConcInit == IdlePool /\ InitCrossConc /\ IdleSim /\ IdleCache

SpecCrossConc == CrossConcInit /\ [][NextCrossConc]_vars

GraphInit == IdlePool /\ InitCrossConc /\ IdleSim /\ IdleCache

SpecGraph == GraphInit /\ [][NextGraph]_vars

CrossQueriesInit == IdlePool /\ InitCrossConc /\ IdleSim /\ IdleCache

SpecCrossQueries == CrossQueriesInit /\ [][NextCrossQueries]_vars

SpecSim == SimInit /\ [][NextSim]_vars

SimNamesInit == IdlePool /\ IdleCross /\ InitSimNames /\ IdleCache

SpecSimNames == SimNamesInit /\ [][NextSim]_vars

\* The two directory walks over directories with broken files: a run of the
\* one analyzer or of the other.  (SpecCross and SpecSim are the walks over
\* directories without broken files.)
WalkInit ==
    /\ IdlePool
    /\ IdleCache
    /\ \/ InitCrossWalk /\ NoSim
       \/ NoCross /\ InitSimWalk

NextWalk ==
    \/ AnalyzeDirectory
    \/ AnalyzeFile
    \/ FindUnusedFunctions
    \/ SimAnalyzeDirectory

SpecWalk == WalkInit /\ [][NextWalk]_vars

SpecCache == CacheInit /\ [][NextCache]_vars

SpecCacheConc == CacheConcInit /\ [][NextCacheConc]_vars

(***************************************************************************)
(* Properties of ParallelAnalyzer.AnalyzeFiles                             *)
(***************************************************************************)
\* The concatenation of Analyze(path).results over the paths, in input
\* order, that Analyze accepts.
RECURSIVE ExpectedResults(_, _)
ExpectedResults(paths, failing) ==
    IF paths = <<>> THEN <<>>
    ELSE (IF Analyze(Head(paths), failing).err THEN <<>> ELSE Analyze(Head(paths), failing).results)
         \o ExpectedResults(Tail(paths), failing)

\* C1: when AnalyzeFiles returns, the multiset of the returned results is the
\* multiset union of Analyze(path) over the paths whose Analyze returned no
\* error, whatever the worker count and the interleaving of the goroutines.
C1_ResultMultiset ==
    callerPc = "returned" =>
        SeqToBag(allResults) = SeqToBag(ExpectedResults(filePaths, analyzeErr))

\* AnalyzeFiles has returned from a run with several workers in which one
\* file failed and a sibling file succeeded.
C1_Witness ==
    /\ callerPc = "returned"
    /\ workerNum >= 2
    /\ Len(filePaths) >= 2
    /\ \E i, j \in 1..Len(filePaths) :
          /\ filePaths[i] \in analyzeErr
          /\ filePaths[j] \notin analyzeErr
    /\ allResults # <<>>

PoolFinished ==
    /\ callerPc = "returned"
    /\ submitPc = "done"
    /\ submitIdx = Len(filePaths)
    /\ jobChan.closed
    /\ \A w \in 1..workerNum : workerPc[w] = "done"
    /\ closerPc = "done"
    /\ resultChan.closed
    /\ ~panicked

\* C2: for a non-empty list of paths AnalyzeFiles eventually returns, with
\* every job enqueued, the job channel closed, every worker exited and the
\* result channel closed; no interleaving deadlocks.
C2_Terminates == (Len(filePaths) > 0) => <>PoolFinished

\* AnalyzeFiles has returned from a run with more workers than files.
C2_Witness ==
    /\ PoolFinished
    /\ Len(filePaths) > 0
    /\ workerNum > Len(filePaths)

\* C13: every entry of filePaths is passed to Analyze exactly once and yields
\* exactly one entry on the result channel, so the sends on the result
\* channel number len(filePaths), its capacity, and no send on the job or
\* result channel ever finds its buffer full.
C13_OneResultPerPathNoBlockedSend ==
    /\ analyzeCalls \sqsubseteq SeqToBag(filePaths)
    /\ resultSends <= Len(filePaths)
    /\ (callerPc = "returned" /\ Len(filePaths) > 0) =>
          /\ analyzeCalls = SeqToBag(filePaths)
          /\ resultSends = Len(filePaths)
          /\ resultSends = resultChan.cap
    /\ (submitPc = "send" /\ submitIdx < Len(filePaths)) =>
          Len(jobChan.buf) < jobChan.cap
    /\ \A w \in Workers :
          workerPc[w] = "send" => Len(resultChan.buf) < resultChan.cap

\* AnalyzeFiles has returned from a run of several workers over several
\* paths, one of them listed twice.
C13_Witness ==
    /\ callerPc = "returned"
    /\ workerNum >= 2
    /\ Len(filePaths) >= 3
    /\ \E i, j \in 1..Len(filePaths) : i # j /\ filePaths[i] = filePaths[j]
    /\ resultSends = Len(filePaths)

\* C14: AnalyzeFiles called with zero paths returns an empty result set
\* without creating a channel, starting a worker, the submitter or the closer,
\* or invoking the analyzer.
C14_EmptyInputReturnsEmpty ==
    Len(filePaths) = 0 =>
        /\ callerPc \in {"entry", "returned"}
        /\ allResults = <<>>
        /\ ~panicked
        /\ spawned = 0
        /\ wg = 0
        /\ \A w \in Workers : workerPc[w] = "none"
        /\ submitPc = "none"
        /\ closerPc = "none"
        /\ jobChan = NoChan
        /\ resultChan = NoChan
        /\ analyzeCalls = EmptyBag
        /\ resultSends = 0

\* AnalyzeFiles has returned from a call with zero paths on a pool of several
\* workers.
C14_Witness ==
    /\ Len(filePaths) = 0
    /\ callerPc = "returned"
    /\ workerNum >= 2

Started == {w \in Workers : workerPc[w] # "none"}

\* The value of WorkerCount(): the workers argument when positive, else
\* NumCPU - 1 on more than four CPUs and NumCPU otherwise; at least 1.
WorkerCountValue ==
    /\ WorkerCount([workerNum |-> workerNum]) =
          IF workersArg > 0 THEN workersArg
          ELSE IF numCPU > 4 THEN numCPU - 1 ELSE numCPU
    /\ WorkerCount([workerNum |-> workerNum]) >= 1

\* C17 as stated: WorkerCount() has the value above and is the number of
\* worker goroutines a call of AnalyzeFiles has started when it returns.
C17_WorkerCountIsGoroutinesStarted ==
    /\ WorkerCountValue
    /\ callerPc = "returned" => Cardinality(Started) = workerNum

\* C17, amended: WorkerCount() has the value above, never changes, and is
\* the number of worker goroutines AnalyzeFiles starts on a non-empty list
\* of paths; on an empty list it starts none.
C17_WorkerCountIsGoroutinesStartedNonEmpty ==
    /\ WorkerCountValue
    /\ Cardinality(Started) <= workerNum
    /\ (callerPc \notin {"entry", "spawn"} /\ Len(filePaths) > 0)
          => Started = 1..workerNum
    /\ Len(filePaths) = 0 => Started = {}

\* AnalyzeFiles has returned from a pool built with a non-positive workers
\* argument on more than four CPUs.
C17_Witness ==
    /\ workersArg <= 0
    /\ numCPU > 4
    /\ Len(filePaths) > 0
    /\ callerPc = "returned"
    /\ Cardinality(Started) = numCPU - 1

(***************************************************************************)
(* Properties of CrossFileAnalyzer                                         *)
(***************************************************************************)
\* The declarations of the analyzed project, with their files.
Declared == {[File |-> p, Decl |-> Catalogue[d]] : p \in PathSet,
                d \in UNION {project[q] : q \in PathSet}}

DeclaredIn == {x \in Declared : \E d \in project[x.File] : Catalogue[d] = x.Decl}

DeclaredFunctions == {x \in DeclaredIn : x.Decl.Recv = ""}

DeclaredMethods == {x \in DeclaredIn : x.Decl.Recv # ""}

\* FindUnusedFunctions has run on the facts of a completed AnalyzeDirectory.
AfterAnalyzeDirectory == found.valid /\ runs >= 1 /\ walkIdx = Len(Paths)

\* How often the latest FindUnusedFunctions reported a finding with this message.
Reported(message) ==
    LET hits == {r \in BagToSet(found.results) : r.Message = message}
    IN  BagCardinality([r \in hits |-> found.results[r]])

FunctionMessage(name) == <<"Function '", name, "' is not called anywhere in the project">>

MethodMessage(name, recv) ==
    <<"Method '", name, "' on receiver '", recv, "' is not called anywhere in the project">>

\* How often the function declared as name in file was reported.
ReportedFunction(file, name) ==
    LET hits == {r \in BagToSet(found.results) :
                    r.Message = FunctionMessage(name) /\ r.FilePath = file}
    IN  BagCardinality([r \in hits |-> found.results[r]])

\* A name is the callee of some recorded direct-call edge / method-call edge.
InCallEdge(name) == \E key \in DOMAIN calls : Contains(calls[key], name)

InMethodCallEdge(name) == \E key \in DOMAIN methodCalls : Contains(methodCalls[key], name)

\* The ignore rule as stated: main, init, the Test/Benchmark/Example naming
\* convention, or exported.
IgnoredName(name) ==
    \/ name = n_main
    \/ name = n_init
    \/ HasPrefix(name, <<"T", "e", "s", "t">>)
    \/ HasPrefix(name, <<"B", "e", "n", "c", "h", "m", "a", "r", "k">>)
    \/ HasPrefix(name, <<"E", "x", "a", "m", "p", "l", "e">>)
    \/ IsExported(name)

\* C3: after AnalyzeDirectory, FindUnusedFunctions reports a free function
\* exactly once when it is not ignored and its name is neither the callee of a
\* recorded call edge nor in the ReferenceSet, and not at all otherwise.
C3_FunctionReportedIffUnused ==
    AfterAnalyzeDirectory =>
        \A x \in DeclaredFunctions :
            ReportedFunction(x.File, x.Decl.Name) =
                (IF ~isIgnoredFunction(functions[x.File][x.Decl.Name])
                    /\ ~(InCallEdge(x.Decl.Name) \/ x.Decl.Name \in funcReferences)
                 THEN 1 ELSE 0)

\* C4: after AnalyzeDirectory, FindUnusedFunctions reports a method exactly
\* once when it is not ignored and its name is in no recorded method-call or
\* direct-call edge and not in the ReferenceSet, and not at all otherwise.
C4_MethodReportedIffUnused ==
    AfterAnalyzeDirectory =>
        \A x \in DeclaredMethods :
            Reported(MethodMessage(x.Decl.Name, x.Decl.Recv)) =
                (IF ~isIgnoredFunction(methods[x.Decl.Recv][x.Decl.Name])
                    /\ ~(InMethodCallEdge(x.Decl.Name) \/ InCallEdge(x.Decl.Name)
                         \/ x.Decl.Name \in funcReferences)
                 THEN 1 ELSE 0)

\* C5: no finding of FindUnusedFunctions ever names a function or method that
\* is main, init, Test/Benchmark/Example-named or exported, whatever the call
\* graph and the ReferenceSet hold.
C5_IgnoredNeverReported ==
    found.valid => \A r \in BagToSet(found.results) : ~IgnoredName(r.Message[2])

\* FindUnusedFunctions ran on a project that declares an exported function, an
\* exported method and an orphan, with no call edge and no reference at all.
C5_Witness ==
    /\ AfterAnalyzeDirectory
    /\ calls = EmptyMap
    /\ methodCalls = EmptyMap
    /\ funcReferences = {}
    /\ \E x \in DeclaredFunctions : IsExported(x.Decl.Name)
    /\ \E x \in DeclaredMethods : IsExported(x.Decl.Name)
    /\ found.results # EmptyBag

HasItem(decl, kind, name) == Contains(decl.Body, Item(kind, name))

\* C6: a function that is the callee of a direct call in the body of any
\* analyzed function or method is never reported.
C6_DirectCalleeNeverReported ==
    AfterAnalyzeDirectory =>
        \A x \in DeclaredFunctions :
            (\E y \in DeclaredIn : HasItem(y.Decl, "call", x.Decl.Name))
                => ReportedFunction(x.File, x.Decl.Name) = 0

\* C7: a free function that some analyzed file references as a function value
\* (h := f; h()) or passes as a bare call argument (process(f)) is not reported.
C7_ReferencedNeverReported ==
    AfterAnalyzeDirectory =>
        \A x \in DeclaredFunctions :
            (\E y \in DeclaredIn : \/ HasItem(y.Decl, "ident", x.Decl.Name)
                                   \/ HasItem(y.Decl, "arg", x.Decl.Name))
                => ReportedFunction(x.File, x.Decl.Name) = 0

\* The free functions whose body calls the name.
CallersOf(name) == {y \in DeclaredFunctions : HasItem(y.Decl, "call", name)}

\* C27: usage is decided by name at one level: a free function that calls
\* itself, or that is called by a free function that is itself reported as
\* unused, is not reported by FindUnusedFunctions.
C27_UsedByNameNotReachability ==
    AfterAnalyzeDirectory =>
        \A x \in DeclaredFunctions :
            (\/ x \in CallersOf(x.Decl.Name)
             \/ \E y \in CallersOf(x.Decl.Name) :
                   ReportedFunction(y.File, y.Decl.Name) >= 1)
                => ReportedFunction(x.File, x.Decl.Name) = 0

\* A function that is not ignored, is referenced nowhere as a value and has
\* one caller only, a function of another file that FindUnusedFunctions
\* reports; the project has no main.
C27_Witness ==
    /\ AfterAnalyzeDirectory
    /\ \E x \in DeclaredFunctions :
          /\ ~IgnoredName(x.Decl.Name)
          /\ x.Decl.Name \notin funcReferences
          /\ x \notin CallersOf(x.Decl.Name)
          /\ Cardinality(CallersOf(x.Decl.Name)) = 1
          /\ \A y \in CallersOf(x.Decl.Name) :
                /\ y.File # x.File
                /\ ReportedFunction(y.File, y.Decl.Name) = 1
          /\ ReportedFunction(x.File, x.Decl.Name) = 0
    /\ \A x \in DeclaredIn : x.Decl.Name # n_main

(***************************************************************************)
(* Properties of SimilarityAnalyzer                                        *)
(***************************************************************************)
\* The token stream collected for a key.
TokenStream(key) == Fields(funcBodies[key])

\* The number of tokens of A for which an equal token exists anywhere in B.
MatchedTokens(A, B) ==
    Cardinality({i \in 1..Len(A) : \E j \in 1..Len(B) : A[i] = B[j]})

MinLen(A, B) == IF Len(A) <= Len(B) THEN Len(A) ELSE Len(B)

\* matchedTokenCount / min(|A|, |B|) >= tenths / 10
ScoresAtLeast(A, B, tenths) ==
    MinLen(A, B) > 0 /\ MatchedTokens(A, B) * 10 >= tenths * MinLen(A, B)

\* The findings for the pair enumerated as (k1, k2).
FindingsFor(k1, k2) ==
    {n \in 1..Len(similarities) :
        similarities[n].File1 = k1 /\ similarities[n].File2 = k2}

C9_ScoreSymmetric ==
    simPc = "done" =>
        \A n \in 1..Len(similarities) :
            LET s == similarities[n]
                A == TokenStream(s.File1)
                B == TokenStream(s.File2)
            IN  /\ MatchedTokens(B, A) * s.Similarity.den = s.Similarity.num * MinLen(A, B)
                /\ ScoresAtLeast(B, A, threshold)

C25_ScoreWithinUnitRange ==
    simPc = "done" =>
        \A i, j \in 1..Len(keys) :
            i < j =>
                LET sim == calculateSimilarity(funcBodies, keys[i], keys[j])
                    A == TokenStream(keys[i])
                    B == TokenStream(keys[j])
                IN  /\ sim.den > 0
                    /\ 0 <= sim.num
                    /\ sim.num <= sim.den
                    /\ (A # <<>> /\ B # <<>>) => sim.num <= MinLen(A, B)
                    /\ (A = <<>> \/ B = <<>>) => sim.num = 0

\* A name the spec excludes: init, main, Test*, Benchmark*, Example*.
ExcludedName(name) ==
    \/ name = n_init
    \/ name = n_main
    \/ HasPrefix(name, <<"T", "e", "s", "t">>)
    \/ HasPrefix(name, <<"B", "e", "n", "c", "h", "m", "a", "r", "k">>)
    \/ HasPrefix(name, <<"E", "x", "a", "m", "p", "l", "e">>)

\* C26: the similarity pass collects the token stream of every declaration
\* that has a body and is not named init or main nor starts with Test,
\* Benchmark or Example, and of no other; so a declaration named initialize
\* or mainLoop is collected and compared.
C26_CollectsAllButExcludedNames ==
    simPc = "done" =>
        \A i \in 1..Len(simDecls) :
            LET key == <<simDecls[i].File, simDecls[i].Name>>
                eligible == simDecls[i].HasBody /\ ~ExcludedName(simDecls[i].Name)
            IN  /\ eligible <=> key \in DOMAIN funcBodies
                /\ eligible =>
                      /\ TokenStream(key) = bodyTokens(simProject[i])
                      /\ \E k \in 1..Len(keys) : keys[k] = key

\* The declaration stored under a key.
DeclOf(key) == CHOOSE d \in 1..Len(SimDecls) :
                  SimDecls[d].File = key[1] /\ SimDecls[d].Name = key[2]

CallEdgesRecorded(path) ==
    \A d \in project[path] : \A i \in 1..Len(Catalogue[d].Body) :
        Catalogue[d].Body[i].kind \in {"call", "selcall"} =>
            /\ <<path, Catalogue[d].Name>> \in DOMAIN calls
            /\ Contains(calls[<<path, Catalogue[d].Name>>], Catalogue[d].Body[i].name)

\* A declaration of the file has been registered.
DeclarationsRecorded(path) ==
    /\ path \in DOMAIN functions
    /\ \/ functions[path] # EmptyMap
       \/ \E d \in project[path] :
             /\ Catalogue[d].Recv \in DOMAIN methods
             /\ Catalogue[d].Name \in DOMAIN methods[Catalogue[d].Recv]

\* C21: while FindUnusedFunctions or GetCallGraph holds the read lock,
\* analyzeFile is not inside its locked section, and every file whose
\* declarations are recorded has its call edges recorded too.
C21_ReadersSeeWholeFiles ==
    rdPc \in {"read", "unlock"} =>
        /\ ~mu.writer
        /\ afPc = "idle"
        /\ \A p \in PathSet : DeclarationsRecorded(p) => CallEdgesRecorded(p)

\* A query holds the read lock in the middle of the first walk: the first
\* file is recorded with its call edges, the second not at all.
C21_Witness ==
    /\ rdPc = "read"
    /\ runs = 1
    /\ walkIdx = 1
    /\ DeclarationsRecorded(Paths[1])
    /\ calls # EmptyMap
    /\ Paths[2] \notin DOMAIN functions
    /\ project[Paths[2]] # {}

\* C22: the map GetCallGraph returned is a snapshot: a step that changes the
\* analyzer's call edges leaves the returned map as it was, and a step that
\* changes the returned map or a callee list in it leaves the analyzer's
\* call edges, and so the results of later queries, as they were.
C22_CallGraphIsSnapshot ==
    [][(graph.valid /\ graph'.valid) =>
          /\ calls' # calls => graph'.edges = graph.edges
          /\ graph'.edges # graph.edges => calls' = calls]_vars

\* s is the beginning of t: an append-only list keeps what it had.
IsPrefixOf(s, t) == Len(s) <= Len(t) /\ SubSeq(t, 1, Len(s)) = s

\* Every key of old is a key of new, with its list of callees kept in front.
EdgesKept(old, new) ==
    \A key \in DOMAIN old : key \in DOMAIN new /\ IsPrefixOf(old[key], new[key])

\* C23: a step of AnalyzeDirectory, of the analysis of one file, of
\* FindUnusedFunctions or of GetCallGraph removes no direct-call edge, no
\* method-call edge and no referenced name; the two queries change none.
C23_EdgesOnlyGrow ==
    [][/\ EdgesKept(calls, calls')
       /\ EdgesKept(methodCalls, methodCalls')
       /\ funcReferences \subseteq funcReferences'
       /\ (FindUnusedFunctions \/ GetCallGraph) =>
             UNCHANGED <<calls, methodCalls, funcReferences>>]_vars

\* Both files were analyzed twice, both queries were answered, and edges of
\* every kind are on record, one caller's list holding both runs' edges.
C23_Witness ==
    /\ runs = 2
    /\ walkIdx = Len(Paths)
    /\ walkErr = ""
    /\ found.valid
    /\ graph.valid
    /\ graph.edges = calls
    /\ Cardinality(DOMAIN calls) >= 2
    /\ \E key \in DOMAIN calls : Len(calls[key]) >= 2
    /\ methodCalls # EmptyMap
    /\ funcReferences # {}

\* C24: in every interleaving of AnalyzeFiles no goroutine sends on a closed
\* channel; the result channel is closed only once every started worker has
\* returned, the job channel only once every path has been enqueued, and the
\* caller of a non-empty call returns only when every worker has returned
\* and every result a worker sent, one per path, has been taken off the
\* result channel.
C24_ChannelsClosedAfterLastSend ==
    /\ ~panicked
    /\ resultChan.closed =>
          /\ spawned = workerNum
          /\ \A w \in 1..workerNum : workerPc[w] = "done"
    /\ jobChan.closed => submitIdx = Len(filePaths)
    /\ (callerPc = "returned" /\ Len(filePaths) > 0) =>
          /\ \A w \in 1..workerNum : workerPc[w] = "done"
          /\ resultSends = Len(filePaths)
          /\ resultChan.buf = <<>>
          /\ resultChan.closed

\* Several workers shared the largest input and the caller has returned
\* after both channels were closed.
C24_Witness ==
    /\ Len(filePaths) = MaxFiles
    /\ workerNum >= 2
    /\ callerPc = "returned"
    /\ jobChan.closed
    /\ resultChan.closed
    /\ resultSends = MaxFiles

(***************************************************************************)
(* Properties of the directory walks                                       *)
(***************************************************************************)
\* The analyzer as NewCrossFileAnalyzer returns it.
NewFacts == [functions |-> EmptyMap, methods |-> EmptyMap, calls |-> EmptyMap,
             methodCalls |-> EmptyMap, funcReferences |-> {}]

\* The position in walk order of the first file of the directory that cannot
\* be read or parsed.
FirstBroken ==
    CHOOSE k \in 1..Len(Paths) :
        Paths[k] \in broken /\ \A j \in 1..(k - 1) : Paths[j] \notin broken

\* The same for the declarations of the similarity pass's directory.
SimFirstBroken ==
    CHOOSE k \in 1..Len(SimDecls) :
        SimDecls[k].File \in simBroken
            /\ \A j \in 1..(k - 1) : SimDecls[j].File \notin simBroken

SimKey(i) == <<SimDecls[i].File, SimDecls[i].Name>>

\* CrossFileAnalyzer.AnalyzeDirectory over a directory with a broken file.
CrossWalkAborts ==
    (broken # {} /\ runs >= 1) =>
        \* no file from the broken one on is ever recorded
        /\ \A j \in FirstBroken..Len(Paths) : Paths[j] \notin DOMAIN functions
        /\ \A i \in 1..Len(analyzed) : analyzed[i] = Paths[i]
        /\ Len(analyzed) < FirstBroken
        /\ walkIdx = Len(Paths) =>
              \* the walk is over: it returned the error of the broken file
              /\ walkErr = Paths[FirstBroken]
              /\ Len(analyzed) = FirstBroken - 1
              \* and the files before it are recorded
              /\ \A j \in 1..(FirstBroken - 1) :
                    /\ Paths[j] \in DOMAIN functions
                    /\ functions[Paths[j]] =
                          analyzeFile(NewFacts, Paths[j], project[Paths[j]]).functions[Paths[j]]

\* SimilarityAnalyzer.AnalyzeDirectory over a directory with a broken file.
SimWalkAborts ==
    (simBroken # {} /\ simPc = "done") =>
        /\ simErr = SimDecls[SimFirstBroken].File
        /\ simResults = <<>>
        /\ \A i \in SimFirstBroken..Len(SimDecls) : SimKey(i) \notin DOMAIN funcBodies
        /\ \A i \in 1..(SimFirstBroken - 1) :
              ~isIgnoredFunctionName(SimDecls[i].Name) =>
                  /\ SimKey(i) \in DOMAIN funcBodies
                  /\ funcBodies[SimKey(i)] = getNormalizedBody(simProject[i])

GetAfterSet ==
    /\ ret.op = "Get"
    /\ ret.afterSet.set
    /\ ret.afterSet.path = ret.path

\* C11: a Get that directly follows a successful Set(path, a) on the
\* unmodified file returns (a, true) whenever the time elapsed since the Set
\* is within the max age.
C11_GetAfterSetHitsWithinMaxAge ==
    (GetAfterSet /\ now - ret.afterSet.at <= maxAge) =>
        /\ ret.ok
        /\ ret.file = ret.afterSet.file
        /\ ret.fset = ret.afterSet.fset

\* C12: in no interleaving of concurrent calls is the map modified while
\* another call reads or modifies it, and every modification of the map
\* happens while the lock is held exclusively.
C12_MapAccessSerialized ==
    /\ \A g \in Callers : ~Racing(g)
    /\ \A g \in Callers : callPc[g] = "write" => writer = g

\* The entries other than filePath are the same in both maps.
OthersUntouched(before, after, filePath) ==
    \A q \in ((DOMAIN before) \cup (DOMAIN after)) \ {filePath} :
        q \in DOMAIN before /\ q \in DOMAIN after /\ after[q] = before[q]

\* C18: Get on a stored entry whose age, now - storedModTime, is within max
\* age returns the stored artifact with found = TRUE and leaves the cache
\* unchanged; on an older entry it returns found = FALSE and removes exactly
\* that entry; on an absent path it returns found = FALSE and changes
\* nothing.  Max age is the constructor's argument, five minutes for 0.
C18_GetHitsExpiresOrMisses ==
    /\ maxAge \in {IF age = 0 THEN FiveMinutes ELSE age : age \in MaxAgeArgs}
    /\ ret.op = "Get" =>
          IF ret.path \notin DOMAIN ret.before
          THEN ~ret.ok /\ ret.file = Nil /\ ret.fset = Nil /\ cache = ret.before
          ELSE IF now - ret.before[ret.path].modTime <= maxAge
               THEN /\ ret.ok
                    /\ ret.file = ret.before[ret.path].file
                    /\ ret.fset = ret.before[ret.path].fset
                    /\ cache = ret.before
               ELSE /\ ~ret.ok
                    /\ ret.path \notin DOMAIN cache
                    /\ Size(TheCache) = Cardinality(DOMAIN ret.before) - 1
                    /\ OthersUntouched(ret.before, cache, ret.path)

\* A Get has just removed the expired one of two entries.
C18_Witness ==
    /\ ret.op = "Get"
    /\ Cardinality(DOMAIN ret.before) = 2
    /\ now - ret.before[ret.path].modTime > maxAge
    /\ Cardinality(DOMAIN cache) = 1

\* C19: Size() and Stats().Entries are the number of distinct paths stored.
\* A new cache has none; a successful Set on a new path adds one entry; on a
\* stored path it replaces artifact, file set and modification time together
\* and keeps the count; Invalidate removes only the entry of its path and
\* does nothing when the path is absent; InvalidateAll leaves no entry.
C19_EntryCount ==
    /\ \A age \in MaxAgeArgs : Size(NewASTCache(age)) = 0
    /\ ret.op = "Size" => ret.n = Cardinality(DOMAIN cache) /\ cache = ret.before
    /\ ret.op = "Stats" => ret.stats.Entries = Cardinality(DOMAIN cache)
    /\ (ret.op = "Set" /\ ret.ok) =>
          /\ DOMAIN cache = (DOMAIN ret.before) \cup {ret.path}
          /\ Cardinality(DOMAIN cache) =
                Cardinality(DOMAIN ret.before)
                    + (IF ret.path \in DOMAIN ret.before THEN 0 ELSE 1)
          /\ cache[ret.path] = [file |-> ret.file, fset |-> ret.fset,
                                modTime |-> disk[ret.path], filePath |-> ret.path]
          /\ OthersUntouched(ret.before, cache, ret.path)
    /\ ret.op = "Invalidate" =>
          /\ ret.path \notin DOMAIN cache
          /\ OthersUntouched(ret.before, cache, ret.path)
          /\ ret.path \notin DOMAIN ret.before => cache = ret.before
    /\ ret.op = "InvalidateAll" => Cardinality(DOMAIN cache) = 0

\* A Set has just replaced the entry of a stored path, next to another
\* entry, with another artifact and a later modification time.
C19_Witness ==
    /\ ret.op = "Set"
    /\ ret.ok
    /\ ret.path \in DOMAIN ret.before
    /\ Cardinality(DOMAIN cache) = 2
    /\ ret.before[ret.path].file # cache[ret.path].file
    /\ ret.before[ret.path].modTime < cache[ret.path].modTime

\* The ages of the entries at the time of the latest call.
AgeOf(filePath) == now - cache[filePath].modTime

RECURSIVE SumOfAges(_)
SumOfAges(S) ==
    IF S = {} THEN 0
    ELSE LET p == CHOOSE x \in S : TRUE IN AgeOf(p) + SumOfAges(S \ {p})

\* C20: Stats() on k >= 1 entries returns Entries = k, MaxAge the largest
\* and MinAge the smallest of the entries' ages, TotalAge their sum and
\* AvgAge = TotalAge / k; on an empty cache every field is 0; Stats does not
\* change the cache.
C20_StatsMinMaxAvg ==
    ret.op = "Stats" =>
        /\ cache = ret.before
        /\ ret.stats.Entries = Cardinality(DOMAIN cache)
        /\ IF DOMAIN cache = {}
           THEN ret.stats = CacheStats(0)
           ELSE /\ \E p \in DOMAIN cache : ret.stats.MaxAge = AgeOf(p)
                /\ \A p \in DOMAIN cache : AgeOf(p) <= ret.stats.MaxAge
                /\ \E p \in DOMAIN cache : ret.stats.MinAge = AgeOf(p)
                /\ \A p \in DOMAIN cache : ret.stats.MinAge <= AgeOf(p)
                /\ ret.stats.TotalAge = SumOfAges(DOMAIN cache)
                /\ ret.stats.AvgAge = ret.stats.TotalAge \div Cardinality(DOMAIN cache)
                /\ ret.stats.MinAge <= ret.stats.AvgAge
                /\ ret.stats.AvgAge <= ret.stats.MaxAge

\* C28: a Set of a path that cannot be stat'ed changes nothing: the cache
\* holds exactly the entries it held before the call, an earlier entry of
\* that path with its old artifact and modification time included, and Size
\* is what it was.
C28_SetWithoutStatChangesNothing ==
    (ret.op = "Set" /\ ~ret.ok) =>
        /\ cache = ret.before
        /\ Size(TheCache) = Cardinality(DOMAIN ret.before)
        /\ ret.path \in DOMAIN ret.before => cache[ret.path] = ret.before[ret.path]

\* A Set of another artifact for a cached path whose file has been removed
\* since; the cache holds a second entry as well.
C28_Witness ==
    /\ ret.op = "Set"
    /\ ~ret.ok
    /\ ret.path \notin DOMAIN disk
    /\ ret.path \in DOMAIN cache
    /\ cache[ret.path].file # ret.file
    /\ Size(TheCache) = 2

\* The latest call returned the artifact stored for its path.
ReturnsStored(entry) ==
    /\ ret'.ok
    /\ ret'.file = entry.file
    /\ ret'.fset = entry.fset
    /\ cache' = cache

RECURSIVE FactsAfterWalk(_, _)
FactsAfterWalk(a, i) ==
    IF i > Len(Paths) THEN a
    ELSE FactsAfterWalk(analyzeFile(a, Paths[i], project[Paths[i]]), i + 1)

\* What FindUnusedFunctions returns after a single AnalyzeDirectory.
FirstRunFindings ==
    findUnusedRegularFunctions(FactsAfterWalk(NewFacts, 1))
        (+) findUnusedMethods(FactsAfterWalk(NewFacts, 1))

\* C30: after a second AnalyzeDirectory on the same analyzer and the same
\* directory FindUnusedFunctions returns the multiset of findings it returns
\* after the first, each finding once.
C30_SecondRunSameFindings ==
    (AfterAnalyzeDirectory /\ runs = 2) =>
        /\ found.results = FirstRunFindings
        /\ \A r \in BagToSet(found.results) : found.results[r] = 1

\* After the second run every recorded caller holds its edges twice, an
\* orphan is reported and a function that is called is not.
C30_Witness ==
    /\ AfterAnalyzeDirectory
    /\ runs = 2
    /\ calls # EmptyMap
    /\ \A key \in DOMAIN calls : Len(calls[key]) >= 2
    /\ \E x \in DeclaredFunctions : ReportedFunction(x.File, x.Decl.Name) = 1
    /\ \E x \in DeclaredFunctions :
          /\ ~IgnoredName(x.Decl.Name)
          /\ x.Decl.Name \notin funcReferences
          /\ InCallEdge(x.Decl.Name)
          /\ ReportedFunction(x.File, x.Decl.Name) = 0

====
